---- MODULE Spec2Model ----
(***************************************************************************)
(* A model of the QR Code encoder of js/qrcode2.js: the byte-mode segment  *)
(* (QR8bitByte), the codeword builder (createData / createBytes with the   *)
(* GF(256) polynomial engine), the module matrix builder (makeImpl and its *)
(* setup routines, mapData), the mask evaluator (getBestMaskPattern,       *)
(* getLostPoint), the QRCodeModel object (addData, isDark, make) and the   *)
(* version selector (_getTypeNumber, _getUTF8Length).                      *)
(*                                                                         *)
(* Conventions.  A JavaScript array is a function on 0..n-1 where the code *)
(* indexes it by row and column (the module grid) and a sequence 1..n      *)
(* elsewhere (byte arrays, polynomials); a sequence index is the array     *)
(* index plus one.  A boolean module is 1 (dark, true) or 0 (light,        *)
(* false), an unset module (null) is Null.  A string is the sequence of    *)
(* its UTF-16 code units.  A loop of the code is a recursive operator that *)
(* runs the loop body for a range of indices, first half before second     *)
(* half, which is the sequential order of the loop.                        *)
(***************************************************************************)
EXTENDS Integers, Sequences, FiniteSets, TLC

(***************************************************************************)
(* Bounds of the model (not constants of the program).                     *)
(***************************************************************************)
\* The longest dataList the model lets addData build.
MaxData == 2

(***************************************************************************)
(* Values of the program.                                                  *)
(***************************************************************************)
\* modules[row][col] = null: the cell is not set yet.
Null == -1
\* this.modules = null: no grid has been allocated.
NullModules == << >>
\* this.dataCache = null.
NullCache == << -1 >>
\* A hole of a JavaScript array made by new Array(n): reading it gives
\* undefined, which == 0 is false for and which ^ and >>> take as 0.
Undef == -1

\* QRMode.MODE_8BIT_BYTE: 1<<2.
MODE_8BIT_BYTE == 4

\* QRErrorCorrectLevel.
QRErrorCorrectLevel == [L |-> 1, M |-> 0, Q |-> 3, H |-> 2]

(***************************************************************************)
(* The tables of the program.                                              *)
(***************************************************************************)
PATTERN_POSITION_TABLE ==
  <<<<>>, <<6,18>>, <<6,22>>, <<6,26>>, <<6,30>>,
    <<6,34>>, <<6,22,38>>, <<6,24,42>>, <<6,26,46>>, <<6,28,50>>,
    <<6,30,54>>, <<6,32,58>>, <<6,34,62>>, <<6,26,46,66>>, <<6,26,48,70>>,
    <<6,26,50,74>>, <<6,30,54,78>>, <<6,30,56,82>>, <<6,30,58,86>>, <<6,34,62,90>>,
    <<6,28,50,72,94>>, <<6,26,50,74,98>>, <<6,30,54,78,102>>, <<6,28,54,80,106>>, <<6,32,58,84,110>>,
    <<6,30,58,86,114>>, <<6,34,62,90,118>>, <<6,26,50,74,98,122>>, <<6,30,54,78,102,126>>, <<6,26,52,78,104,130>>,
    <<6,30,56,82,108,134>>, <<6,34,60,86,112,138>>, <<6,30,58,86,114,142>>, <<6,34,62,90,118,146>>, <<6,30,54,78,102,126,150>>,
    <<6,24,50,76,102,128,154>>, <<6,28,54,80,106,132,158>>, <<6,32,58,84,110,136,162>>, <<6,26,54,82,110,138,166>>, <<6,30,58,86,114,142,170>>>>

RS_BLOCK_TABLE ==
  <<<<1,26,19>>, <<1,26,16>>, <<1,26,13>>, <<1,26,9>>,
    <<1,44,34>>, <<1,44,28>>, <<1,44,22>>, <<1,44,16>>,
    <<1,70,55>>, <<1,70,44>>, <<2,35,17>>, <<2,35,13>>,
    <<1,100,80>>, <<2,50,32>>, <<2,50,24>>, <<4,25,9>>,
    <<1,134,108>>, <<2,67,43>>, <<2,33,15,2,34,16>>, <<2,33,11,2,34,12>>,
    <<2,86,68>>, <<4,43,27>>, <<4,43,19>>, <<4,43,15>>,
    <<2,98,78>>, <<4,49,31>>, <<2,32,14,4,33,15>>, <<4,39,13,1,40,14>>,
    <<2,121,97>>, <<2,60,38,2,61,39>>, <<4,40,18,2,41,19>>, <<4,40,14,2,41,15>>,
    <<2,146,116>>, <<3,58,36,2,59,37>>, <<4,36,16,4,37,17>>, <<4,36,12,4,37,13>>,
    <<2,86,68,2,87,69>>, <<4,69,43,1,70,44>>, <<6,43,19,2,44,20>>, <<6,43,15,2,44,16>>,
    <<4,101,81>>, <<1,80,50,4,81,51>>, <<4,50,22,4,51,23>>, <<3,36,12,8,37,13>>,
    <<2,116,92,2,117,93>>, <<6,58,36,2,59,37>>, <<4,46,20,6,47,21>>, <<7,42,14,4,43,15>>,
    <<4,133,107>>, <<8,59,37,1,60,38>>, <<8,44,20,4,45,21>>, <<12,33,11,4,34,12>>,
    <<3,145,115,1,146,116>>, <<4,64,40,5,65,41>>, <<11,36,16,5,37,17>>, <<11,36,12,5,37,13>>,
    <<5,109,87,1,110,88>>, <<5,65,41,5,66,42>>, <<5,54,24,7,55,25>>, <<11,36,12>>,
    <<5,122,98,1,123,99>>, <<7,73,45,3,74,46>>, <<15,43,19,2,44,20>>, <<3,45,15,13,46,16>>,
    <<1,135,107,5,136,108>>, <<10,74,46,1,75,47>>, <<1,50,22,15,51,23>>, <<2,42,14,17,43,15>>,
    <<5,150,120,1,151,121>>, <<9,69,43,4,70,44>>, <<17,50,22,1,51,23>>, <<2,42,14,19,43,15>>,
    <<3,141,113,4,142,114>>, <<3,70,44,11,71,45>>, <<17,47,21,4,48,22>>, <<9,39,13,16,40,14>>,
    <<3,135,107,5,136,108>>, <<3,67,41,13,68,42>>, <<15,54,24,5,55,25>>, <<15,43,15,10,44,16>>,
    <<4,144,116,4,145,117>>, <<17,68,42>>, <<17,50,22,6,51,23>>, <<19,46,16,6,47,17>>,
    <<2,139,111,7,140,112>>, <<17,74,46>>, <<7,54,24,16,55,25>>, <<34,37,13>>,
    <<4,151,121,5,152,122>>, <<4,75,47,14,76,48>>, <<11,54,24,14,55,25>>, <<16,45,15,14,46,16>>,
    <<6,147,117,4,148,118>>, <<6,73,45,14,74,46>>, <<11,54,24,16,55,25>>, <<30,46,16,2,47,17>>,
    <<8,132,106,4,133,107>>, <<8,75,47,13,76,48>>, <<7,54,24,22,55,25>>, <<22,45,15,13,46,16>>,
    <<10,142,114,2,143,115>>, <<19,74,46,4,75,47>>, <<28,50,22,6,51,23>>, <<33,46,16,4,47,17>>,
    <<8,152,122,4,153,123>>, <<22,73,45,3,74,46>>, <<8,53,23,26,54,24>>, <<12,45,15,28,46,16>>,
    <<3,147,117,10,148,118>>, <<3,73,45,23,74,46>>, <<4,54,24,31,55,25>>, <<11,45,15,31,46,16>>,
    <<7,146,116,7,147,117>>, <<21,73,45,7,74,46>>, <<1,53,23,37,54,24>>, <<19,45,15,26,46,16>>,
    <<5,145,115,10,146,116>>, <<19,75,47,10,76,48>>, <<15,54,24,25,55,25>>, <<23,45,15,25,46,16>>,
    <<13,145,115,3,146,116>>, <<2,74,46,29,75,47>>, <<42,54,24,1,55,25>>, <<23,45,15,28,46,16>>,
    <<17,145,115>>, <<10,74,46,23,75,47>>, <<10,54,24,35,55,25>>, <<19,45,15,35,46,16>>,
    <<17,145,115,1,146,116>>, <<14,74,46,21,75,47>>, <<29,54,24,19,55,25>>, <<11,45,15,46,46,16>>,
    <<13,145,115,6,146,116>>, <<14,74,46,23,75,47>>, <<44,54,24,7,55,25>>, <<59,46,16,1,47,17>>,
    <<12,151,121,7,152,122>>, <<12,75,47,26,76,48>>, <<39,54,24,14,55,25>>, <<22,45,15,41,46,16>>,
    <<6,151,121,14,152,122>>, <<6,75,47,34,76,48>>, <<46,54,24,10,55,25>>, <<2,45,15,64,46,16>>,
    <<17,152,122,4,153,123>>, <<29,74,46,14,75,47>>, <<49,54,24,10,55,25>>, <<24,45,15,46,46,16>>,
    <<4,152,122,18,153,123>>, <<13,74,46,32,75,47>>, <<48,54,24,14,55,25>>, <<42,45,15,32,46,16>>,
    <<20,147,117,4,148,118>>, <<40,75,47,7,76,48>>, <<43,54,24,22,55,25>>, <<10,45,15,67,46,16>>,
    <<19,148,118,6,149,119>>, <<18,75,47,31,76,48>>, <<34,54,24,34,55,25>>, <<20,45,15,61,46,16>>>>

QRCodeLimitLength ==
  <<<<17,14,11,7>>, <<32,26,20,14>>, <<53,42,32,24>>, <<78,62,46,34>>, <<106,84,60,44>>, <<134,106,74,58>>, <<154,122,86,64>>, <<192,152,108,84>>,
    <<230,180,130,98>>, <<271,213,151,119>>, <<321,251,177,137>>, <<367,287,203,155>>, <<425,331,241,177>>, <<458,362,258,194>>, <<520,412,292,220>>, <<586,450,322,250>>,
    <<644,504,364,280>>, <<718,560,394,310>>, <<792,624,442,338>>, <<858,666,482,382>>, <<929,711,509,403>>, <<1003,779,565,439>>, <<1091,857,611,461>>, <<1171,911,661,511>>,
    <<1273,997,715,535>>, <<1367,1059,751,593>>, <<1465,1125,805,625>>, <<1528,1190,868,658>>, <<1628,1264,908,698>>, <<1732,1370,982,742>>, <<1840,1452,1030,790>>, <<1952,1538,1112,842>>,
    <<2068,1628,1168,898>>, <<2188,1722,1228,958>>, <<2303,1809,1283,983>>, <<2431,1911,1351,1051>>, <<2563,1989,1423,1093>>, <<2699,2099,1499,1139>>, <<2809,2213,1579,1219>>, <<2953,2331,1663,1273>>>>

(***************************************************************************)
(* Integer operations of JavaScript on the values the encoder uses.        *)
(***************************************************************************)
\* ToInt32 of a defined number of the model or of undefined.
ToInt(a) == IF a = Undef THEN 0 ELSE a

\* a ^ b on non-negative integers.
RECURSIVE XorNat(_, _)
XorNat(a, b) ==
  IF a = 0 THEN b
  ELSE IF b = 0 THEN a
  ELSE ((a + b) % 2) + 2 * XorNat(a \div 2, b \div 2)

Xor(a, b) == XorNat(ToInt(a), ToInt(b))

\* 2^k.
RECURSIVE Pow2(_)
Pow2(k) == IF k = 0 THEN 1 ELSE 2 * Pow2(k - 1)

\* (num >>> k) & 1.
BitAt(num, k) == (ToInt(num) \div Pow2(k)) % 2

(***************************************************************************)
(* QRMath: the exponent and logarithm tables of GF(256).                   *)
(***************************************************************************)
\* EXP_TABLE[i] for i < 8 is 1<<i, and for 8 <= i < 256 the recurrence.
\* The state s holds EXP_TABLE[0..Len(s)-1] as s[1..Len(s)].
ExpEntry(s, i) ==
  IF i < 8 THEN Pow2(i)
  ELSE Xor(Xor(s[i - 4 + 1], s[i - 5 + 1]), Xor(s[i - 6 + 1], s[i - 8 + 1]))

RECURSIVE ExpLoop(_, _, _)
ExpLoop(s, lo, hi) ==
  IF lo > hi THEN s
  ELSE IF lo = hi THEN Append(s, ExpEntry(s, lo))
  ELSE LET mid == (lo + hi) \div 2
           s1 == ExpLoop(s, lo, mid)
       IN  IF Len(s1) >= 0 THEN ExpLoop(s1, mid + 1, hi) ELSE s1

ExpSeq == ExpLoop(<< >>, 0, 255)

EXP_TABLE == [i \in 0..255 |-> ExpSeq[i + 1]]

\* for (i = 0; i < 255; i++) LOG_TABLE[EXP_TABLE[i]] = i, on an array of
\* 256 holes.  The state t holds LOG_TABLE[0..255] as t[1..256].
RECURSIVE LogLoop(_, _, _)
LogLoop(t, lo, hi) ==
  IF lo > hi THEN t
  ELSE IF lo = hi THEN [t EXCEPT ![ExpSeq[lo + 1] + 1] = lo]
  ELSE LET mid == (lo + hi) \div 2
           t1 == LogLoop(t, lo, mid)
       IN  IF Len(t1) >= 0 THEN LogLoop(t1, mid + 1, hi) ELSE t1

LogSeq == LogLoop([i \in 1..256 |-> Undef], 0, 254)

LOG_TABLE == [n \in 0..255 |-> LogSeq[n + 1]]

\* glog(n) throws for n < 1.
glogThrows(n) == n < 1

glog(n) == LogSeq[n + 1]

\* A gexp that brings n into 0..255 by steps of 256.
RECURSIVE gexpBySize(_)
gexpBySize(n) ==
  IF n < 0 THEN gexpBySize(n + 256)
  ELSE IF n >= 256 THEN gexpBySize(n - 256)
  ELSE ExpSeq[n + 1]

\* gexp(n): n is brought into 0..255 by steps of 255, then looked up.
RECURSIVE gexp(_)
gexp(n) ==
  IF n < 0 THEN gexp(n + 255)
  ELSE IF n >= 256 THEN gexp(n - 255)
  ELSE ExpSeq[n + 1]

(***************************************************************************)
(* QRPolynomial: coefficients over GF(256), highest degree first.          *)
(***************************************************************************)
\* new QRPolynomial(num, shift): the leading coefficients that == 0 are
\* dropped (a hole is not), and shift holes follow the coefficients kept.
QRPolynomial(num, shift) ==
  LET nz     == {i \in 1..Len(num) : num[i] # 0}
      offset == IF nz = {} THEN Len(num)
                ELSE (CHOOSE i \in nz : \A j \in nz : i <= j) - 1
      kept   == Len(num) - offset
  IN  [i \in 1..(kept + shift) |-> IF i <= kept THEN num[i + offset] ELSE Undef]

\* gexp(glog(x) + glog(y)), where a hole gives undefined all the way.
GMul(x, y) == IF x = Undef \/ y = Undef THEN Undef ELSE gexp(glog(x) + glog(y))

\* The inner loop of multiply: num[i+j] ^= gexp(glog(this.get(i)) + glog(e.get(j))).
RECURSIVE MultiplyInner(_, _, _, _, _, _)
MultiplyInner(num, a, e, i, lo, hi) ==
  IF lo > hi THEN num
  ELSE IF lo = hi THEN [num EXCEPT ![i + lo + 1] = Xor(@, GMul(a[i + 1], e[lo + 1]))]
  ELSE LET mid == (lo + hi) \div 2
           n1  == MultiplyInner(num, a, e, i, lo, mid)
       IN  IF Len(n1) >= 0 THEN MultiplyInner(n1, a, e, i, mid + 1, hi) ELSE n1

RECURSIVE MultiplyOuter(_, _, _, _, _)
MultiplyOuter(num, a, e, lo, hi) ==
  IF lo > hi THEN num
  ELSE IF lo = hi THEN MultiplyInner(num, a, e, lo, 0, Len(e) - 1)
  ELSE LET mid == (lo + hi) \div 2
           n1  == MultiplyOuter(num, a, e, lo, mid)
       IN  IF Len(n1) >= 0 THEN MultiplyOuter(n1, a, e, mid + 1, hi) ELSE n1

\* multiply throws (glog of 0) when it reads a coefficient that is 0.
multiplyThrows(a, e) ==
  /\ Len(a) > 0
  /\ Len(e) > 0
  /\ \/ \E i \in 1..Len(a) : a[i] # Undef /\ glogThrows(a[i])
     \/ \E j \in 1..Len(e) : e[j] # Undef /\ glogThrows(e[j])

multiply(a, e) ==
  QRPolynomial(MultiplyOuter([k \in 1..(Len(a) + Len(e) - 1) |-> Undef],
                             a, e, 0, Len(a) - 1), 0)

\* A division step that keeps the coefficient it has cancelled.
modStepUntrimmed(p, e) ==
  LET ratio == IF p[1] = Undef \/ e[1] = Undef THEN Undef ELSE glog(p[1]) - glog(e[1])
  IN  [i \in 1..Len(p) |->
         IF i <= Len(e)
         THEN Xor(p[i], IF ratio = Undef \/ e[i] = Undef THEN Undef
                        ELSE gexp(glog(e[i]) + ratio))
         ELSE p[i]]

\* One division step of mod: num[i] ^= gexp(glog(e.get(i)) + ratio) for the
\* coefficients of e, then a new polynomial of the result.
modStep(p, e) ==
  LET ratio == IF p[1] = Undef \/ e[1] = Undef THEN Undef ELSE glog(p[1]) - glog(e[1])
      num   == [i \in 1..Len(p) |->
                  IF i <= Len(e)
                  THEN Xor(p[i], IF ratio = Undef \/ e[i] = Undef THEN Undef
                                 ELSE gexp(glog(e[i]) + ratio))
                  ELSE p[i]]
  IN  QRPolynomial(num, 0)

\* The passes lo..hi of mod: a pass returns p when it is shorter than e,
\* and else goes on with the polynomial of the division step.
RECURSIVE ModLoop(_, _, _, _)
ModLoop(p, e, lo, hi) ==
  IF lo > hi THEN p
  ELSE IF lo = hi THEN (IF Len(p) - Len(e) < 0 THEN p ELSE modStep(p, e))
  ELSE LET mid == (lo + hi) \div 2
           p1  == ModLoop(p, e, lo, mid)
       IN  IF Len(p1) >= 0 THEN ModLoop(p1, e, mid + 1, hi) ELSE p1

\* mod(e): every step drops at least the leading coefficient, so the
\* recursion ends within Len(p) - Len(e) + 1 passes.
mod(p, e) == ModLoop(p, e, 1, Len(p) - Len(e) + 1)

\* getErrorCorrectPolynomial: a = [1]; a = a.multiply([1, gexp(i)]) for i < n.
RECURSIVE ErrorCorrectLoop(_, _, _)
ErrorCorrectLoop(a, lo, hi) ==
  IF lo > hi THEN a
  ELSE IF lo = hi THEN multiply(a, QRPolynomial(<<1, gexp(lo)>>, 0))
  ELSE LET mid == (lo + hi) \div 2
           a1  == ErrorCorrectLoop(a, lo, mid)
       IN  IF Len(a1) >= 0 THEN ErrorCorrectLoop(a1, mid + 1, hi) ELSE a1

getErrorCorrectPolynomial(errorCorrectLength) ==
  ErrorCorrectLoop(QRPolynomial(<<1>>, 0), 0, errorCorrectLength - 1)

(***************************************************************************)
(* QRRSBlock.                                                               *)
(***************************************************************************)
\* The value of an array read outside its indices, and of the default case.
NoRow == << >>

TableRow(index) ==
  IF index \in 0..(Len(RS_BLOCK_TABLE) - 1) THEN RS_BLOCK_TABLE[index + 1] ELSE NoRow

getRsBlockTable(typeNumber, errorCorrectLevel) ==
  CASE errorCorrectLevel = QRErrorCorrectLevel.L -> TableRow((typeNumber - 1) * 4 + 0)
    [] errorCorrectLevel = QRErrorCorrectLevel.M -> TableRow((typeNumber - 1) * 4 + 1)
    [] errorCorrectLevel = QRErrorCorrectLevel.Q -> TableRow((typeNumber - 1) * 4 + 2)
    [] errorCorrectLevel = QRErrorCorrectLevel.H -> TableRow((typeNumber - 1) * 4 + 3)
    [] OTHER -> NoRow

\* getRSBlocks throws "bad rs block" when there is no row.
getRSBlocksThrows(typeNumber, errorCorrectLevel) ==
  getRsBlockTable(typeNumber, errorCorrectLevel) = NoRow

\* A list of blocks with the groups of the row in the reverse order.
RECURSIVE RSBlockGroupsReversed(_, _, _)
RSBlockGroupsReversed(rsBlock, lo, hi) ==
  IF lo > hi THEN << >>
  ELSE IF lo = hi
       THEN [j \in 1..rsBlock[lo * 3 + 1] |->
               [totalCount |-> rsBlock[lo * 3 + 2], dataCount |-> rsBlock[lo * 3 + 3]]]
  ELSE LET mid == (lo + hi) \div 2
       IN  RSBlockGroupsReversed(rsBlock, mid + 1, hi)
             \o RSBlockGroupsReversed(rsBlock, lo, mid)

\* The list of blocks: for each group i of the row, count copies of
\* (totalCount, dataCount), groups in the order of the row.
RECURSIVE RSBlockGroups(_, _, _)
RSBlockGroups(rsBlock, lo, hi) ==
  IF lo > hi THEN << >>
  ELSE IF lo = hi
       THEN [j \in 1..rsBlock[lo * 3 + 1] |->
               [totalCount |-> rsBlock[lo * 3 + 2], dataCount |-> rsBlock[lo * 3 + 3]]]
  ELSE LET mid == (lo + hi) \div 2
       IN  RSBlockGroups(rsBlock, lo, mid) \o RSBlockGroups(rsBlock, mid + 1, hi)

getRSBlocks(typeNumber, errorCorrectLevel) ==
  LET rsBlock == getRsBlockTable(typeNumber, errorCorrectLevel)
  IN  RSBlockGroups(rsBlock, 0, (Len(rsBlock) \div 3) - 1)

(***************************************************************************)
(* QRBitBuffer: buffer is the byte array, length the number of bits.       *)
(***************************************************************************)
QRBitBuffer == [buffer |-> << >>, length |-> 0]

\* A putBit that pushes the next byte one bit early.
putBitAhead(b, bit) ==
  LET bufIndex == b.length \div 8
      grown    == IF Len(b.buffer) <= (b.length + 1) \div 8
                  THEN Append(b.buffer, 0) ELSE b.buffer
      set      == IF bit
                  THEN [grown EXCEPT ![bufIndex + 1] =
                          IF (@ \div Pow2(7 - (b.length % 8))) % 2 = 1 THEN @
                          ELSE @ + Pow2(7 - (b.length % 8))]
                  ELSE grown
  IN  [buffer |-> set, length |-> b.length + 1]

\* putBit(bit), bit a boolean.
putBit(b, bit) ==
  LET bufIndex == b.length \div 8
      grown    == IF Len(b.buffer) <= bufIndex THEN Append(b.buffer, 0) ELSE b.buffer
      set      == IF bit
                  THEN [grown EXCEPT ![bufIndex + 1] =
                          IF (@ \div Pow2(7 - (b.length % 8))) % 2 = 1 THEN @
                          ELSE @ + Pow2(7 - (b.length % 8))]
                  ELSE grown
  IN  [buffer |-> set, length |-> b.length + 1]

\* put(num, length): putBit(((num >>> (length - i - 1)) & 1) == 1) for i < length.
RECURSIVE PutLoop(_, _, _, _, _)
PutLoop(b, num, length, lo, hi) ==
  IF lo > hi THEN b
  ELSE IF lo = hi THEN putBit(b, BitAt(num, length - lo - 1) = 1)
  ELSE LET mid == (lo + hi) \div 2
           b1  == PutLoop(b, num, length, lo, mid)
       IN  IF b1.length >= 0 THEN PutLoop(b1, num, length, mid + 1, hi) ELSE b1

put(b, num, length) == PutLoop(b, num, length, 0, length - 1)

(***************************************************************************)
(* QR8bitByte: the byte-mode segment of a string.                          *)
(***************************************************************************)
\* The bytes of one code unit.
CodeBytes(code) ==
  IF code > 65536
  THEN << 240 + ((code \div 262144) % 8), 128 + ((code \div 4096) % 64),
          128 + ((code \div 64) % 64), 128 + (code % 64) >>
  ELSE IF code > 2048
  THEN << 224 + ((code \div 4096) % 16), 128 + ((code \div 64) % 64), 128 + (code % 64) >>
  ELSE IF code > 128
  THEN << 192 + ((code \div 64) % 32), 128 + (code % 64) >>
  ELSE << code >>

\* Array.prototype.concat.apply([], parsedData) of the byte arrays of data[lo..hi].
RECURSIVE ParseRange(_, _, _)
ParseRange(data, lo, hi) ==
  IF lo > hi THEN << >>
  ELSE IF lo = hi THEN CodeBytes(data[lo])
  ELSE LET mid == (lo + hi) \div 2
       IN  ParseRange(data, lo, mid) \o ParseRange(data, mid + 1, hi)

\* A segment whose three added bytes are in the order of the unshift calls.
QR8bitByteAsUnshifted(data) ==
  LET parsed == ParseRange(data, 1, Len(data))
  IN  [mode       |-> MODE_8BIT_BYTE,
       data       |-> data,
       parsedData |-> IF Len(parsed) # Len(data)
                      THEN <<191, 187, 239>> \o parsed
                      ELSE parsed]

QR8bitByte(data) ==
  LET parsed == ParseRange(data, 1, Len(data))
  IN  [mode       |-> MODE_8BIT_BYTE,
       data       |-> data,
       parsedData |-> IF Len(parsed) # Len(data)
                      THEN <<239, 187, 191>> \o parsed
                      ELSE parsed]

getLength(seg) == Len(seg.parsedData)

\* write(buffer): buffer.put(parsedData[i], 8) for every byte.
RECURSIVE WriteLoop(_, _, _, _)
WriteLoop(b, seg, lo, hi) ==
  IF lo > hi THEN b
  ELSE IF lo = hi THEN put(b, seg.parsedData[lo], 8)
  ELSE LET mid == (lo + hi) \div 2
           b1  == WriteLoop(b, seg, lo, mid)
       IN  IF b1.length >= 0 THEN WriteLoop(b1, seg, mid + 1, hi) ELSE b1

write(seg, b) == WriteLoop(b, seg, 1, Len(seg.parsedData))

(***************************************************************************)
(* QRUtil.getLengthInBits for the byte mode.                               *)
(***************************************************************************)
\* It throws for a type that is not below 41; the mode is always the byte mode.
getLengthInBitsThrows(mode, type) == ~(1 <= type /\ type < 10) /\ ~(type < 27) /\ ~(type < 41)

getLengthInBits(mode, type) ==
  IF 1 <= type /\ type < 10 THEN 8
  ELSE IF type < 27 THEN 16
  ELSE 16

(***************************************************************************)
(* QRCodeModel.createData and createBytes.                                 *)
(***************************************************************************)
PAD0 == 236
PAD1 == 17

\* The loop over dataList: mode indicator, length field, payload.
RECURSIVE SegmentLoop(_, _, _, _, _)
SegmentLoop(b, typeNumber, dataList, lo, hi) ==
  IF lo > hi THEN b
  ELSE IF lo = hi
       THEN LET data == dataList[lo]
                b1   == put(b, data.mode, 4)
                b2   == put(b1, getLength(data), getLengthInBits(data.mode, typeNumber))
            IN  write(data, b2)
  ELSE LET mid == (lo + hi) \div 2
           b1  == SegmentLoop(b, typeNumber, dataList, lo, mid)
       IN  IF b1.length >= 0 THEN SegmentLoop(b1, typeNumber, dataList, mid + 1, hi) ELSE b1

DataBuffer(typeNumber, dataList) ==
  SegmentLoop(QRBitBuffer, typeNumber, dataList, 1, Len(dataList))

\* totalDataCount += rsBlocks[i].dataCount.
RECURSIVE SumDataCount(_, _, _)
SumDataCount(rsBlocks, lo, hi) ==
  IF lo > hi THEN 0
  ELSE IF lo = hi THEN rsBlocks[lo].dataCount
  ELSE LET mid == (lo + hi) \div 2
       IN  SumDataCount(rsBlocks, lo, mid) + SumDataCount(rsBlocks, mid + 1, hi)

TotalDataCount(rsBlocks) == SumDataCount(rsBlocks, 1, Len(rsBlocks))

\* What createData throws, "none" when it returns.
createDataThrows(typeNumber, errorCorrectLevel, dataList) ==
  IF getRSBlocksThrows(typeNumber, errorCorrectLevel) THEN "bad rs block"
  ELSE IF DataBuffer(typeNumber, dataList).length
            > TotalDataCount(getRSBlocks(typeNumber, errorCorrectLevel)) * 8
  THEN "code length overflow"
  ELSE "none"

\* while (length % 8 != 0) putBit(false).
RECURSIVE BitPadding(_)
BitPadding(b) == IF b.length % 8 # 0 THEN BitPadding(putBit(b, FALSE)) ELSE b

\* A pad-byte loop that begins with PAD1.
RECURSIVE BytePaddingSwapped(_, _, _, _)
BytePaddingSwapped(b, totalDataCount, lo, hi) ==
  IF lo > hi THEN b
  ELSE IF b.length >= totalDataCount * 8 THEN b
  ELSE BytePaddingSwapped(put(b, IF lo % 2 = 0 THEN PAD1 ELSE PAD0, 8),
                          totalDataCount, lo + 1, hi)

\* The k-th pass (k = 0, 1, ...) through the pad-byte loop: PAD0 on the even
\* passes, PAD1 on the odd ones, nothing once the length is reached.
RECURSIVE BytePadding(_, _, _, _)
BytePadding(b, totalDataCount, lo, hi) ==
  IF lo > hi THEN b
  ELSE IF lo = hi
       THEN IF b.length >= totalDataCount * 8 THEN b
            ELSE put(b, IF lo % 2 = 0 THEN PAD0 ELSE PAD1, 8)
  ELSE LET mid == (lo + hi) \div 2
           b1  == BytePadding(b, totalDataCount, lo, mid)
       IN  IF b1.length >= 0 THEN BytePadding(b1, totalDataCount, mid + 1, hi) ELSE b1

\* A padding that puts no terminator.
PaddedBufferNoTerminator(b, totalDataCount) ==
  BytePadding(BitPadding(b), totalDataCount, 0, totalDataCount - 1)

\* The buffer after the terminator and the padding.
PaddedBuffer(b, totalDataCount) ==
  LET b1 == IF b.length + 4 <= totalDataCount * 8 THEN put(b, 0, 4) ELSE b
      b2 == BitPadding(b1)
  IN  BytePadding(b2, totalDataCount, 0, totalDataCount - 1)

\* dcdata[r]: dataCount bytes of the buffer from offset on.
BlockData(buffer, offset, dcCount) ==
  [i \in 1..dcCount |->
     IF i + offset <= Len(buffer.buffer) THEN buffer.buffer[i + offset] % 256 ELSE 0]

\* ecdata[r][i] for the n cells: modPoly right-aligned, 0 before it.
EcCells(modPoly, n) ==
  [i \in 1..n |->
     IF (i - 1) + Len(modPoly) - n >= 0
     THEN modPoly[(i - 1) + Len(modPoly) - n + 1] ELSE 0]

\* rawPoly.mod(rsPoly), rawPoly the data shifted by the degree of rsPoly.
BlockMod(dc, rsPoly) ==
  EcCells(mod(QRPolynomial(dc, Len(rsPoly) - 1), rsPoly), Len(rsPoly) - 1)

\* ecdata[r]: the remainder of the block's data, right-aligned in ecCount cells.
BlockEc(dc, ecCount) == BlockMod(dc, getErrorCorrectPolynomial(ecCount))

\* offset of block r (1-based): the dataCount of the blocks before it.
BlockOffset(rsBlocks, r) == SumDataCount(rsBlocks, 1, r - 1)

\* The cells i of every array that has one, arrays in order.
RECURSIVE InterleaveAt(_, _, _, _)
InterleaveAt(arrs, i, lo, hi) ==
  IF lo > hi THEN << >>
  ELSE IF lo = hi THEN (IF i <= Len(arrs[lo]) THEN << arrs[lo][i] >> ELSE << >>)
  ELSE LET mid == (lo + hi) \div 2
       IN  InterleaveAt(arrs, i, lo, mid) \o InterleaveAt(arrs, i, mid + 1, hi)

RECURSIVE Interleave(_, _, _)
Interleave(arrs, lo, hi) ==
  IF lo > hi THEN << >>
  ELSE IF lo = hi THEN InterleaveAt(arrs, lo, 1, Len(arrs))
  ELSE LET mid == (lo + hi) \div 2
       IN  Interleave(arrs, lo, mid) \o Interleave(arrs, mid + 1, hi)

MaxLen(arrs) ==
  IF Len(arrs) = 0 THEN 0
  ELSE LET lens == {Len(arrs[r]) : r \in 1..Len(arrs)}
       IN  CHOOSE m \in lens : \A k \in lens : k <= m

\* dcdata of the blocks lo..hi.
RECURSIVE DcData(_, _, _, _)
DcData(buffer, rsBlocks, lo, hi) ==
  IF lo > hi THEN << >>
  ELSE IF lo = hi
       THEN << BlockData(buffer, BlockOffset(rsBlocks, lo), rsBlocks[lo].dataCount) >>
  ELSE LET mid == (lo + hi) \div 2
       IN  DcData(buffer, rsBlocks, lo, mid) \o DcData(buffer, rsBlocks, mid + 1, hi)

\* ecdata of the blocks lo..hi.
RECURSIVE EcData(_, _, _, _)
EcData(dcdata, rsBlocks, lo, hi) ==
  IF lo > hi THEN << >>
  ELSE IF lo = hi
       THEN << BlockEc(dcdata[lo], rsBlocks[lo].totalCount - rsBlocks[lo].dataCount) >>
  ELSE LET mid == (lo + hi) \div 2
       IN  EcData(dcdata, rsBlocks, lo, mid) \o EcData(dcdata, rsBlocks, mid + 1, hi)

\* The same loops with the blocks taken from the last to the first.
InterleaveAllLastFirst(arrs) ==
  Interleave([r \in 1..Len(arrs) |-> arrs[Len(arrs) + 1 - r]], 1, MaxLen(arrs))

\* The loops that fill data: cell i of every array, for i < the longest.
InterleaveAll(arrs) == Interleave(arrs, 1, MaxLen(arrs))

\* data: the data arrays interleaved, then the error correction arrays.
CreateBytesFrom(dcdata, rsBlocks) ==
  InterleaveAll(dcdata) \o InterleaveAll(EcData(dcdata, rsBlocks, 1, Len(rsBlocks)))

createBytes(buffer, rsBlocks) ==
  CreateBytesFrom(DcData(buffer, rsBlocks, 1, Len(rsBlocks)), rsBlocks)

\* createData from the buffer on, with the blocks of the version and level.
CreateDataWith(typeNumber, dataList, rsBlocks) ==
  createBytes(PaddedBuffer(DataBuffer(typeNumber, dataList), TotalDataCount(rsBlocks)),
              rsBlocks)

\* The codewords createData returns when it does not throw.
createData(typeNumber, errorCorrectLevel, dataList) ==
  CreateDataWith(typeNumber, dataList, getRSBlocks(typeNumber, errorCorrectLevel))

(***************************************************************************)
(* QRUtil: the BCH codes, the mask patterns, the pattern positions.        *)
(***************************************************************************)
\* a | b on non-negative integers.
RECURSIVE OrNat(_, _)
OrNat(a, b) ==
  IF a = 0 THEN b
  ELSE IF b = 0 THEN a
  ELSE (IF a % 2 = 1 \/ b % 2 = 1 THEN 1 ELSE 0) + 2 * OrNat(a \div 2, b \div 2)

\* G15 = (1<<10)|(1<<8)|(1<<5)|(1<<4)|(1<<2)|(1<<1)|(1<<0).
G15 == 1335
\* G18 = (1<<12)|(1<<11)|(1<<10)|(1<<9)|(1<<8)|(1<<5)|(1<<2)|(1<<0).
G18 == 7973
\* G15_MASK = (1<<14)|(1<<12)|(1<<10)|(1<<4)|(1<<1).
G15_MASK == 21522

RECURSIVE getBCHDigit(_)
getBCHDigit(data) == IF data # 0 THEN 1 + getBCHDigit(data \div 2) ELSE 0

\* while (digit(d) - digit(g) >= 0) d ^= g << (digit(d) - digit(g)).
RECURSIVE BCHReduce(_, _)
BCHReduce(d, g) ==
  IF getBCHDigit(d) - getBCHDigit(g) >= 0
  THEN BCHReduce(XorNat(d, g * Pow2(getBCHDigit(d) - getBCHDigit(g))), g)
  ELSE d

\* A format code that keeps the data bits and leaves the remainder out.
getBCHTypeInfoNoRemainder(data) == XorNat(data * Pow2(10), G15_MASK)

getBCHTypeInfo(data) ==
  XorNat(OrNat(data * Pow2(10), BCHReduce(data * Pow2(10), G15)), G15_MASK)

getBCHTypeNumber(data) ==
  OrNat(data * Pow2(12), BCHReduce(data * Pow2(12), G18))

\* PATTERN_POSITION_TABLE[typeNumber - 1].
getPatternPosition(typeNumber) == PATTERN_POSITION_TABLE[typeNumber]

\* getMask(maskPattern, i, j), TRUE when the mask inverts the module.
getMask(maskPattern, i, j) ==
  CASE maskPattern = 0 -> (i + j) % 2 = 0
    [] maskPattern = 1 -> i % 2 = 0
    [] maskPattern = 2 -> j % 3 = 0
    [] maskPattern = 3 -> (i + j) % 3 = 0
    [] maskPattern = 4 -> ((i \div 2) + (j \div 3)) % 2 = 0
    [] maskPattern = 5 -> ((i * j) % 2) + ((i * j) % 3) = 0
    [] maskPattern = 6 -> (((i * j) % 2) + ((i * j) % 3)) % 2 = 0
    [] maskPattern = 7 -> (((i * j) % 3) + ((i + j) % 2)) % 2 = 0

\* The module value of a boolean.
Bool(b) == IF b THEN 1 ELSE 0

(***************************************************************************)
(* The module matrix: the setup routines of makeImpl.  A setup routine     *)
(* takes the grid g[row][col] on 0..n-1 and gives the grid after it.       *)
(***************************************************************************)
\* new Array(moduleCount) of rows of null.
EmptyGrid(n) == [row \in 0..(n - 1) |-> [col \in 0..(n - 1) |-> Null]]

\* A finder pattern with a separator of two cells: r and c in -1..8.
setupPositionProbePatternWide(g, n, row, col) ==
  [rr \in 0..(n - 1) |-> [cc \in 0..(n - 1) |->
     LET r == rr - row
         c == cc - col
     IN  IF r >= -1 /\ r <= 8 /\ c >= -1 /\ c <= 8
         THEN Bool(\/ (0 <= r /\ r <= 6 /\ (c = 0 \/ c = 6))
                   \/ (0 <= c /\ c <= 6 /\ (r = 0 \/ r = 6))
                   \/ (2 <= r /\ r <= 4 /\ 2 <= c /\ c <= 4))
         ELSE g[rr][cc]]]

\* setupPositionProbePattern(row, col): the cells (row+r, col+c), r and c in
\* -1..7, that lie in the grid.
setupPositionProbePattern(g, n, row, col) ==
  [rr \in 0..(n - 1) |-> [cc \in 0..(n - 1) |->
     LET r == rr - row
         c == cc - col
     IN  IF r >= -1 /\ r <= 7 /\ c >= -1 /\ c <= 7
         THEN Bool(\/ (0 <= r /\ r <= 6 /\ (c = 0 \/ c = 6))
                   \/ (0 <= c /\ c <= 6 /\ (r = 0 \/ r = 6))
                   \/ (2 <= r /\ r <= 4 /\ 2 <= c /\ c <= 4))
         ELSE g[rr][cc]]]

\* An alignment pattern with a light centre.
AdjustPatternLightCentre(g, n, row, col) ==
  IF g[row][col] # Null THEN g
  ELSE [rr \in 0..(n - 1) |-> [cc \in 0..(n - 1) |->
          LET r == rr - row
              c == cc - col
          IN  IF r >= -2 /\ r <= 2 /\ c >= -2 /\ c <= 2
              THEN Bool(r = -2 \/ r = 2 \/ c = -2 \/ c = 2)
              ELSE g[rr][cc]]]

\* One alignment pattern: skipped when its centre is set, else the 5x5 cells.
AdjustPattern(g, n, row, col) ==
  IF g[row][col] # Null THEN g
  ELSE [rr \in 0..(n - 1) |-> [cc \in 0..(n - 1) |->
          LET r == rr - row
              c == cc - col
          IN  IF r >= -2 /\ r <= 2 /\ c >= -2 /\ c <= 2
              THEN Bool(r = -2 \/ r = 2 \/ c = -2 \/ c = 2 \/ (r = 0 /\ c = 0))
              ELSE g[rr][cc]]]

\* The loops over i and j of setupPositionAdjustPattern, k = i * pos.length + j.
RECURSIVE AdjustLoop(_, _, _, _, _)
AdjustLoop(g, n, pos, lo, hi) ==
  IF lo > hi THEN g
  ELSE IF lo = hi
       THEN AdjustPattern(g, n, pos[(lo \div Len(pos)) + 1], pos[(lo % Len(pos)) + 1])
  ELSE LET mid == (lo + hi) \div 2
           g1  == AdjustLoop(g, n, pos, lo, mid)
       IN  IF DOMAIN g1 = DOMAIN g THEN AdjustLoop(g1, n, pos, mid + 1, hi) ELSE g1

setupPositionAdjustPattern(g, n, typeNumber) ==
  LET pos == getPatternPosition(typeNumber)
  IN  AdjustLoop(g, n, pos, 0, Len(pos) * Len(pos) - 1)

\* setupTimingPattern: column 6 for the rows 8..n-9, then row 6 for the
\* columns 8..n-9, each cell only when it is not set.
setupTimingPattern(g, n) ==
  LET g1 == [rr \in 0..(n - 1) |-> [cc \in 0..(n - 1) |->
               IF cc = 6 /\ rr >= 8 /\ rr < n - 8 /\ g[rr][cc] = Null
               THEN Bool(rr % 2 = 0) ELSE g[rr][cc]]]
  IN  [rr \in 0..(n - 1) |-> [cc \in 0..(n - 1) |->
         IF rr = 6 /\ cc >= 8 /\ cc < n - 8 /\ g1[rr][cc] = Null
         THEN Bool(cc % 2 = 0) ELSE g1[rr][cc]]]

\* A bit that is written in the trial builds as well.
InfoBitInTrials(test, bits, i) == Bool(BitAt(bits, i) = 1)

\* mod = (!test && ((bits >> i) & 1) == 1).
InfoBit(test, bits, i) == Bool(~test /\ BitAt(bits, i) = 1)

\* setupTypeInfo(test, maskPattern): the first loop writes column 8, the
\* second row 8, then the cell (n-8, 8).
TypeInfoCells(g, n, test, bits) ==
  LET g1   == [rr \in 0..(n - 1) |-> [cc \in 0..(n - 1) |->
                 IF cc = 8 /\ rr < 6 THEN InfoBit(test, bits, rr)
                 ELSE IF cc = 8 /\ (rr = 7 \/ rr = 8) THEN InfoBit(test, bits, rr - 1)
                 ELSE IF cc = 8 /\ rr >= n - 7 THEN InfoBit(test, bits, rr - n + 15)
                 ELSE g[rr][cc]]]
      g2   == [rr \in 0..(n - 1) |-> [cc \in 0..(n - 1) |->
                 IF rr = 8 /\ cc >= n - 8 THEN InfoBit(test, bits, n - 1 - cc)
                 ELSE IF rr = 8 /\ cc = 7 THEN InfoBit(test, bits, 8)
                 ELSE IF rr = 8 /\ cc <= 5 THEN InfoBit(test, bits, 14 - cc)
                 ELSE g1[rr][cc]]]
  IN  [rr \in 0..(n - 1) |-> [cc \in 0..(n - 1) |->
         IF rr = n - 8 /\ cc = 8 THEN Bool(~test) ELSE g2[rr][cc]]]

\* data = (errorCorrectLevel << 3) | maskPattern, bits = getBCHTypeInfo(data).
setupTypeInfo(g, n, errorCorrectLevel, test, maskPattern) ==
  TypeInfoCells(g, n, test, getBCHTypeInfo(OrNat(errorCorrectLevel * 8, maskPattern)))

\* setupTypeNumber(test): the 18 bits at (i div 3, i mod 3 + n - 11), then
\* at the mirrored cells.
TypeNumberCells(g, n, test, bits) ==
  LET g1   == [rr \in 0..(n - 1) |-> [cc \in 0..(n - 1) |->
                 IF rr <= 5 /\ cc >= n - 11 /\ cc <= n - 9
                 THEN InfoBit(test, bits, rr * 3 + (cc - (n - 11)))
                 ELSE g[rr][cc]]]
  IN  [rr \in 0..(n - 1) |-> [cc \in 0..(n - 1) |->
         IF cc <= 5 /\ rr >= n - 11 /\ rr <= n - 9
         THEN InfoBit(test, bits, cc * 3 + (rr - (n - 11)))
         ELSE g1[rr][cc]]]

\* bits = getBCHTypeNumber(typeNumber).
setupTypeNumber(g, n, typeNumber, test) ==
  TypeNumberCells(g, n, test, getBCHTypeNumber(typeNumber))

(***************************************************************************)
(* mapData.  The loop state s: the grid m (the array of rows, as a         *)
(* sequence of sequences), and the variables row, inc, bitIndex, byteIndex *)
(* of the code; brk is set when the inner while (true) has left by its     *)
(* break.                                                                  *)
(***************************************************************************)
\* A cell that takes the bits of a codeword from the lowest to the highest.
MapCellLowBitFirst(s, data, maskPattern, col, c) ==
  IF s.m[s.row + 1][col - c + 1] = Null
  THEN LET bit  == IF s.byteIndex < Len(data)
                   THEN BitAt(data[s.byteIndex + 1], 7 - s.bitIndex) = 1
                   ELSE FALSE
           mask == getMask(maskPattern, s.row, col - c)
           dark == IF mask THEN ~bit ELSE bit
       IN  [s EXCEPT !.m[s.row + 1][col - c + 1] = Bool(dark),
                     !.bitIndex  = IF s.bitIndex - 1 = -1 THEN 7 ELSE s.bitIndex - 1,
                     !.byteIndex = IF s.bitIndex - 1 = -1 THEN s.byteIndex + 1
                                   ELSE s.byteIndex]
  ELSE s

\* The body of for (c = 0; c < 2; c++) for one c.
MapCell(s, data, maskPattern, col, c) ==
  IF s.m[s.row + 1][col - c + 1] = Null
  THEN LET bit  == IF s.byteIndex < Len(data)
                   THEN BitAt(data[s.byteIndex + 1], s.bitIndex) = 1
                   ELSE FALSE
           mask == getMask(maskPattern, s.row, col - c)
           dark == IF mask THEN ~bit ELSE bit
       IN  [s EXCEPT !.m[s.row + 1][col - c + 1] = Bool(dark),
                     !.bitIndex  = IF s.bitIndex - 1 = -1 THEN 7 ELSE s.bitIndex - 1,
                     !.byteIndex = IF s.bitIndex - 1 = -1 THEN s.byteIndex + 1
                                   ELSE s.byteIndex]
  ELSE s

\* One pass of the while (true) loop: the two cells, then the row moves.
MapRow(s, n, data, maskPattern, col) ==
  IF s.brk THEN s
  ELSE LET s1  == MapCell(s, data, maskPattern, col, 0)
           s2  == MapCell(s1, data, maskPattern, col, 1)
           row == s2.row + s2.inc
       IN  IF row < 0 \/ n <= row
           THEN [s2 EXCEPT !.inc = -s2.inc, !.brk = TRUE]
           ELSE [s2 EXCEPT !.row = row]

\* The while (true) loop leaves after at most n passes.
RECURSIVE MapRows(_, _, _, _, _, _, _)
MapRows(s, n, data, maskPattern, col, lo, hi) ==
  IF lo > hi THEN s
  ELSE IF lo = hi THEN MapRow(s, n, data, maskPattern, col)
  ELSE LET mid == (lo + hi) \div 2
           s1  == MapRows(s, n, data, maskPattern, col, lo, mid)
       IN  IF s1.bitIndex >= 0 THEN MapRows(s1, n, data, maskPattern, col, mid + 1, hi)
           ELSE s1

\* The columns of a loop that does not step over column 6.
MapColThroughTiming(n, k) == n - 1 - 2 * k

\* The column of the k-th pass of for (col = n-1; col > 0; col -= 2), with
\* if (col == 6) col--.
MapCol(n, k) == IF n - 1 - 2 * k <= 6 THEN n - 2 - 2 * k ELSE n - 1 - 2 * k

RECURSIVE MapCols(_, _, _, _, _, _)
MapCols(s, n, data, maskPattern, lo, hi) ==
  IF lo > hi THEN s
  ELSE IF lo = hi
       THEN MapRows([s EXCEPT !.brk = FALSE], n, data, maskPattern, MapCol(n, lo), 1, n)
  ELSE LET mid == (lo + hi) \div 2
           s1  == MapCols(s, n, data, maskPattern, lo, mid)
       IN  IF s1.bitIndex >= 0 THEN MapCols(s1, n, data, maskPattern, mid + 1, hi)
           ELSE s1

mapData(g, n, data, maskPattern) ==
  MapCols([m |-> g, row |-> n - 1, inc |-> -1, bitIndex |-> 7, byteIndex |-> 0,
           brk |-> FALSE],
          n, data, maskPattern, 0, ((n - 1) \div 2) - 1).m

(***************************************************************************)
(* makeImpl(test, maskPattern) on a model q = [typeNumber, errorCorrectLevel,*)
(* modules, moduleCount, dataCache, dataList].                             *)
(***************************************************************************)
\* The array of rows of a grid g[row][col] on 0..n-1: the sequence of the
\* sequences of its cells.
RECURSIVE RowCells(_, _, _, _)
RowCells(g, row, lo, hi) ==
  IF lo > hi THEN << >>
  ELSE IF lo = hi THEN << g[row][lo] >>
  ELSE LET mid == (lo + hi) \div 2
       IN  RowCells(g, row, lo, mid) \o RowCells(g, row, mid + 1, hi)

RECURSIVE Rows(_, _, _, _)
Rows(g, n, lo, hi) ==
  IF lo > hi THEN << >>
  ELSE IF lo = hi THEN << RowCells(g, lo, 0, n - 1) >>
  ELSE LET mid == (lo + hi) \div 2
       IN  Rows(g, n, lo, mid) \o Rows(g, n, mid + 1, hi)

\* A makeImpl that allocates the array only when the model has none of the
\* side n, and otherwise goes on with the cells it has.
AllocModulesKeeping(q, n) ==
  IF q.modules = NullModules \/ q.moduleCount # n THEN EmptyGrid(n)
  ELSE [rr \in 0..(n - 1) |-> [cc \in 0..(n - 1) |-> q.modules[rr + 1][cc + 1]]]

\* this.modules after lines 138-144: every cell of the new array is null.
AllocModules(q, n) == EmptyGrid(n)

\* The setup routines of makeImpl in their order, on the new array.
SetupLayers(q, test, maskPattern) ==
  LET n  == q.typeNumber * 4 + 17
      g0 == AllocModules(q, n)
      g1 == setupPositionProbePattern(g0, n, 0, 0)
      g2 == setupPositionProbePattern(g1, n, n - 7, 0)
      g3 == setupPositionProbePattern(g2, n, 0, n - 7)
      g4 == setupPositionAdjustPattern(g3, n, q.typeNumber)
      g5 == setupTimingPattern(g4, n)
      g6 == setupTypeInfo(g5, n, q.errorCorrectLevel, test, maskPattern)
  IN  IF q.typeNumber >= 7 THEN setupTypeNumber(g6, n, q.typeNumber, test) ELSE g6

\* The array after the first k setup routines of makeImpl: the three
\* finder patterns, the alignment patterns, the timing pattern, the format
\* information, and the version information from version 7 on.
SetupStage(q, test, maskPattern, k) ==
  LET n  == q.typeNumber * 4 + 17
      g0 == AllocModules(q, n)
      g1 == setupPositionProbePattern(g0, n, 0, 0)
      g2 == setupPositionProbePattern(g1, n, n - 7, 0)
      g3 == setupPositionProbePattern(g2, n, 0, n - 7)
      g4 == setupPositionAdjustPattern(g3, n, q.typeNumber)
      g5 == setupTimingPattern(g4, n)
      g6 == setupTypeInfo(g5, n, q.errorCorrectLevel, test, maskPattern)
  IN  CASE k = 0 -> g0
        [] k = 1 -> g1
        [] k = 2 -> g2
        [] k = 3 -> g3
        [] k = 4 -> g4
        [] k = 5 -> g5
        [] k = 6 -> g6
        [] OTHER -> IF q.typeNumber >= 7 THEN setupTypeNumber(g6, n, q.typeNumber, test)
                    ELSE g6

\* A setup that allocates typeNumber * 4 + 16 rows.
SetupGridShort(q, test, maskPattern) ==
  Rows(SetupLayers(q, test, maskPattern),
       q.typeNumber * 4 + 17, 0, q.typeNumber * 4 + 15)

\* The grid after the setup routines, before the data is mapped.
SetupGrid(q, test, maskPattern) ==
  Rows(SetupLayers(q, test, maskPattern),
       q.typeNumber * 4 + 17, 0, q.typeNumber * 4 + 16)

\* What makeImpl throws, "none" when it returns: createData runs only when
\* there is no cache.
makeImplThrows(q) ==
  IF q.dataCache = NullCache
  THEN createDataThrows(q.typeNumber, q.errorCorrectLevel, q.dataList)
  ELSE "none"

\* this.dataCache after if (this.dataCache == null) this.dataCache = createData(...).
CacheOf(q) ==
  IF q.dataCache = NullCache
  THEN createData(q.typeNumber, q.errorCorrectLevel, q.dataList)
  ELSE q.dataCache

\* this.mapData(this.dataCache, maskPattern) on the grid g of the setup.
MapInto(q, g, cache, maskPattern) ==
  IF Len(cache) >= 0 /\ Len(g) >= 0
  THEN [q EXCEPT !.moduleCount = Len(g),
                 !.modules     = mapData(g, Len(g), cache, maskPattern),
                 !.dataCache   = cache]
  ELSE q

\* makeImpl from line 156 on, g the grid of the setup: when createData
\* throws, the grid holds the setup patterns and the cache is left as it
\* was.
AfterSetup(q, g, maskPattern) ==
  IF makeImplThrows(q) # "none"
  THEN [q EXCEPT !.moduleCount = Len(g), !.modules = g]
  ELSE MapInto(q, g, CacheOf(q), maskPattern)

\* A makeImpl that creates the data before it touches the model.
makeImplDataFirst(q, test, maskPattern) ==
  IF makeImplThrows(q) # "none" THEN q
  ELSE AfterSetup(q, SetupGrid(q, test, maskPattern), maskPattern)

\* A makeImpl whose final build gives the codewords up.
makeImplForgetting(q, test, maskPattern) ==
  IF test THEN AfterSetup(q, SetupGrid(q, test, maskPattern), maskPattern)
  ELSE [AfterSetup(q, SetupGrid(q, test, maskPattern), maskPattern)
          EXCEPT !.dataCache = NullCache]

\* The model after makeImpl(test, maskPattern).
makeImpl(q, test, maskPattern) ==
  AfterSetup(q, SetupGrid(q, test, maskPattern), maskPattern)

(***************************************************************************)
(* QRUtil.getLostPoint.  The code adds |100*darkCount/n/n - 50|/5*10 to an *)
(* integer; the model keeps the sum exact by returning n*n times it, which *)
(* orders the lost points of grids of one side n as the exact sums do.     *)
(***************************************************************************)
\* modules[row][col] of the array of rows m.
Cell(m, row, col) == m[row + 1][col + 1]

\* The truth value of modules[row][col] in a condition.
Dark(m, row, col) == Cell(m, row, col) = 1

\* Sum of F(k) for k in lo..hi.
RECURSIVE SumOver(_, _, _)
SumOver(F(_), lo, hi) ==
  IF lo > hi THEN 0
  ELSE IF lo = hi THEN F(lo)
  ELSE LET mid == (lo + hi) \div 2
       IN  SumOver(F, lo, mid) + SumOver(F, mid + 1, hi)

\* sameCount of the cell (row, col): the neighbours in the grid equal to it.
SameCount(m, n, row, col) ==
  Cardinality({rc \in (-1..1) \X (-1..1) :
                 /\ ~(row + rc[1] < 0 \/ n <= row + rc[1])
                 /\ ~(col + rc[2] < 0 \/ n <= col + rc[2])
                 /\ ~(rc[1] = 0 /\ rc[2] = 0)
                 /\ Cell(m, row, col) = Cell(m, row + rc[1], col + rc[2])})

LostSame(m, n) ==
  LET F(k) == LET sameCount == SameCount(m, n, k \div n, k % n)
              IN  IF sameCount > 5 THEN 3 + sameCount - 5 ELSE 0
  IN  SumOver(F, 0, n * n - 1)

LostBlocks(m, n) ==
  LET F(k) == LET row   == k \div (n - 1)
                  col   == k % (n - 1)
                  count == Bool(Dark(m, row, col)) + Bool(Dark(m, row + 1, col))
                           + Bool(Dark(m, row, col + 1)) + Bool(Dark(m, row + 1, col + 1))
              IN  IF count = 0 \/ count = 4 THEN 3 ELSE 0
  IN  SumOver(F, 0, (n - 1) * (n - 1) - 1)

LostRows(m, n) ==
  LET F(k) == LET row == k \div (n - 6)
                  col == k % (n - 6)
              IN  IF /\ Dark(m, row, col)     /\ ~Dark(m, row, col + 1)
                     /\ Dark(m, row, col + 2) /\ Dark(m, row, col + 3)
                     /\ Dark(m, row, col + 4) /\ ~Dark(m, row, col + 5)
                     /\ Dark(m, row, col + 6)
                  THEN 40 ELSE 0
  IN  SumOver(F, 0, n * (n - 6) - 1)

LostCols(m, n) ==
  LET F(k) == LET col == k \div (n - 6)
                  row == k % (n - 6)
              IN  IF /\ Dark(m, row, col)     /\ ~Dark(m, row + 1, col)
                     /\ Dark(m, row + 2, col) /\ Dark(m, row + 3, col)
                     /\ Dark(m, row + 4, col) /\ ~Dark(m, row + 5, col)
                     /\ Dark(m, row + 6, col)
                  THEN 40 ELSE 0
  IN  SumOver(F, 0, n * (n - 6) - 1)

DarkCount(m, n) ==
  LET F(k) == Bool(Dark(m, k % n, k \div n))
  IN  SumOver(F, 0, n * n - 1)

Abs(a) == IF a < 0 THEN -a ELSE a

\* n*n times the lost point of the grid m of side n.
getLostPoint(m, n) ==
  IF Len(m) = n
  THEN (LostSame(m, n) + LostBlocks(m, n) + LostRows(m, n) + LostCols(m, n)) * n * n
       + Abs(200 * DarkCount(m, n) - 100 * n * n)
  ELSE 0

(***************************************************************************)
(* The version selector: _getUTF8Length and _getTypeNumber.  A text is the *)
(* sequence of its UTF-16 code units, and is written with digits and with  *)
(* non-digit characters that are no part of a numeric literal.             *)
(***************************************************************************)
\* The length of what encodeURI makes of one code unit, every %XX counted
\* as one character: the number of bytes of its UTF-8 encoding.
UriLength(code) == IF code < 128 THEN 1 ELSE IF code < 2048 THEN 2 ELSE 3

\* The code unit k of sText is one of a surrogate pair: a unit of
\* 0xD800..0xDBFF followed by one of 0xDC00..0xDFFF.
PairedHigh(sText, k) ==
  /\ 55296 <= sText[k] /\ sText[k] <= 56319
  /\ k < Len(sText)
  /\ 56320 <= sText[k + 1] /\ sText[k + 1] <= 57343

PairedLow(sText, k) == k > 1 /\ PairedHigh(sText, k - 1)

\* encodeURI throws a URIError on a surrogate unit that is not of a pair.
encodeURIThrows(sText) ==
  \E k \in 1..Len(sText) :
    /\ 55296 <= sText[k] /\ sText[k] <= 57343
    /\ ~PairedHigh(sText, k)
    /\ ~PairedLow(sText, k)

\* replacedText.length: a surrogate pair is one code point, of 4 bytes.
RECURSIVE ReplacedLength(_, _, _)
ReplacedLength(sText, lo, hi) ==
  IF lo > hi THEN 0
  ELSE IF lo = hi
  THEN (IF PairedHigh(sText, lo) THEN 4
        ELSE IF PairedLow(sText, lo) THEN 0
        ELSE UriLength(sText[lo]))
  ELSE LET mid == (lo + hi) \div 2
       IN  ReplacedLength(sText, lo, mid) + ReplacedLength(sText, mid + 1, hi)

IsDigit(code) == 48 <= code /\ code <= 57

\* The value of a text of digits.
RECURSIVE DigitsValue(_, _)
DigitsValue(sText, k) ==
  IF k = 0 THEN 0 ELSE 10 * DigitsValue(sText, k - 1) + (sText[k] - 48)

\* Not a number.
NaN == -1

\* The number a text converts to in a comparison with a number: the empty
\* text is 0, a text of digits its decimal value, a text with a character
\* that is no digit is NaN.
ToNumber(sText) ==
  IF \E k \in 1..Len(sText) : ~IsDigit(sText[k]) THEN NaN
  ELSE DigitsValue(sText, Len(sText))

\* replacedText.length + (replacedText.length != sText ? 3 : 0): the number
\* is compared with the text itself.
_getUTF8Length(sText) ==
  LET replaced == ReplacedLength(sText, 1, Len(sText))
      number   == ToNumber(sText)
  IN  replaced + (IF number = NaN \/ replaced # number THEN 3 ELSE 0)

\* QRCodeLimitLength[i][k] of the switch on nCorrectLevel, i from 0; the
\* level of no case leaves nLimit 0, and the row i = 40 is undefined.
LimitColumn(nCorrectLevel) ==
  CASE nCorrectLevel = QRErrorCorrectLevel.L -> 1
    [] nCorrectLevel = QRErrorCorrectLevel.M -> 2
    [] nCorrectLevel = QRErrorCorrectLevel.Q -> 3
    [] nCorrectLevel = QRErrorCorrectLevel.H -> 4
    [] OTHER -> 0

\* The loop for (i = 0, len = QRCodeLimitLength.length; i <= len; i++) from
\* i on, nType being the type so far: the type at the break or at the end
\* of the loop, or the TypeError of reading a column of the undefined row.
RECURSIVE TypeLoop(_, _, _, _)
TypeLoop(length, nCorrectLevel, i, nType) ==
  IF i > Len(QRCodeLimitLength) THEN [err |-> "none", nType |-> nType]
  ELSE IF LimitColumn(nCorrectLevel) # 0 /\ i = Len(QRCodeLimitLength)
  THEN [err |-> "TypeError", nType |-> nType]
  ELSE LET nLimit == IF LimitColumn(nCorrectLevel) = 0 THEN 0
                     ELSE QRCodeLimitLength[i + 1][LimitColumn(nCorrectLevel)]
       IN  IF length <= nLimit THEN [err |-> "none", nType |-> nType]
           ELSE TypeLoop(length, nCorrectLevel, i + 1, nType + 1)

\* _getTypeNumber: what it throws ("none" when it returns) and the type.
_getTypeNumber(sText, nCorrectLevel) ==
  LET r == TypeLoop(_getUTF8Length(sText), nCorrectLevel, 0, 1)
  IN  IF encodeURIThrows(sText) THEN [err |-> "URIError", nType |-> 1]
      ELSE IF r.err # "none" THEN r
      ELSE IF r.nType > Len(QRCodeLimitLength)
      THEN [err |-> "Too long data", nType |-> r.nType]
      ELSE r

(***************************************************************************)
(* The state machine.  A QRCodeModel and the calls of its public methods   *)
(* addData, isDark and make; make is the sequence of its builds, one step  *)
(* per pass of the loop of getBestMaskPattern and one for the final build. *)
(* JavaScript runs a call to its end, so no other call starts while make   *)
(* is between two steps.                                                   *)
(***************************************************************************)
VARIABLES
  qr,                  \* the QRCodeModel: typeNumber, errorCorrectLevel,
                       \* modules, moduleCount, dataCache, dataList
  pc,                  \* "idle", or where make is: "trial", "final"
  iTrial,              \* the i of getBestMaskPattern
  lostPoint,           \* its lostPoint (n*n times the code's)
  minLostPoint,        \* its minLostPoint (n*n times the code's)
  pattern,             \* its pattern
  op,                  \* the last call: "new", "addData", "isDark", "make"
  arg,                 \* its arguments
  ret,                 \* << v >> when it returned v, << >> otherwise
  err,                 \* what it threw, "none" when it did not throw
  builds,              \* the makeImpl and getLostPoint calls of the last make
  pre,                 \* the model when the last make was called
  made,                \* the model and pattern the last make left, no
                       \* addData since
  sel,                 \* a call of _getTypeNumber: its input and its result
  cap,                 \* a call of createData on one segment
  lib                  \* a call of another function of the library on its own

vars == << qr, pc, iTrial, lostPoint, minLostPoint, pattern, op, arg, ret, err,
           builds, pre, made, sel, cap, lib >>

NoMake == << >>
NoCall == << >>

\* The text of n characters c.
Repeat(c, n) == [k \in 1..n |-> c]

\* The models built: version 1 at level H, version 2 at level L, and
\* version 1 with a level that is none of QRErrorCorrectLevel.
Configs ==
  { << 1, QRErrorCorrectLevel.H >>, << 2, QRErrorCorrectLevel.L >>,
    << 1, QRErrorCorrectLevel.H + 2 >> }

\* The texts added: "AB", "é", which is stored with a byte order mark, and
\* "10A ", for which two mask patterns share the least lost point.
Texts == { << 65, 66 >>, << 233 >>, << 49, 48, 65, 32 >> }

\* The rows and columns isDark is asked for.
Coords == { -1, 0, 20, 21 }

\* new QRCodeModel(typeNumber, errorCorrectLevel).
QRCodeModel(typeNumber, errorCorrectLevel) ==
  [typeNumber |-> typeNumber, errorCorrectLevel |-> errorCorrectLevel,
   modules |-> NullModules, moduleCount |-> 0, dataCache |-> NullCache,
   dataList |-> << >>]

\* The state after new QRCodeModel(typeNumber, errorCorrectLevel).
New(typeNumber, errorCorrectLevel) ==
  /\ qr = QRCodeModel(typeNumber, errorCorrectLevel)
  /\ pc = "idle"
  /\ iTrial = 0
  /\ lostPoint = 0
  /\ minLostPoint = 0
  /\ pattern = 0
  /\ op = "new"
  /\ arg = << >>
  /\ ret = << >>
  /\ err = "none"
  /\ builds = << >>
  /\ pre = NoMake
  /\ made = NoMake

Init ==
  /\ \E cfg \in Configs : New(cfg[1], cfg[2])
  /\ sel = NoCall
  /\ cap = NoCall
  /\ lib = NoCall

\* An addData that leaves the cache as it is.
addDataKeepingCache(data) ==
  /\ pc = "idle"
  /\ Len(qr.dataList) < MaxData
  /\ qr' = [qr EXCEPT !.dataList = Append(@, QR8bitByte(data))]
  /\ op' = "addData"
  /\ arg' = << data >>
  /\ ret' = << >>
  /\ err' = "none"
  /\ made' = NoMake
  /\ UNCHANGED << pc, iTrial, lostPoint, minLostPoint, pattern, builds, pre, sel, cap, lib >>

\* addData(data).
addData(data) ==
  /\ pc = "idle"
  /\ Len(qr.dataList) < MaxData
  /\ qr' = [qr EXCEPT !.dataList = Append(@, QR8bitByte(data)),
                      !.dataCache = NullCache]
  /\ op' = "addData"
  /\ arg' = << data >>
  /\ ret' = << >>
  /\ err' = "none"
  /\ made' = NoMake
  /\ UNCHANGED << pc, iTrial, lostPoint, minLostPoint, pattern, builds, pre, sel, cap, lib >>

\* An isDark that returns the truth value of the cell.
isDarkAsBoolean(row, col) ==
  /\ pc = "idle"
  /\ op' = "isDark"
  /\ arg' = << row, col >>
  /\ IF row < 0 \/ qr.moduleCount <= row \/ col < 0 \/ qr.moduleCount <= col
     THEN err' = "bounds" /\ ret' = << >>
     ELSE err' = "none" /\ ret' = << Bool(Dark(qr.modules, row, col)) >>
  /\ UNCHANGED << qr, pc, iTrial, lostPoint, minLostPoint, pattern, builds, pre,
                  made, sel, cap, lib >>

\* isDark(row, col).
isDark(row, col) ==
  /\ pc = "idle"
  /\ op' = "isDark"
  /\ arg' = << row, col >>
  /\ IF row < 0 \/ qr.moduleCount <= row \/ col < 0 \/ qr.moduleCount <= col
     THEN err' = "bounds" /\ ret' = << >>
     ELSE err' = "none" /\ ret' = << Cell(qr.modules, row, col) >>
  /\ UNCHANGED << qr, pc, iTrial, lostPoint, minLostPoint, pattern, builds, pre,
                  made, sel, cap, lib >>

\* make() is called: getBestMaskPattern sets its variables.
MakeBegin ==
  /\ pc = "idle"
  /\ pc' = "trial"
  /\ iTrial' = 0
  /\ lostPoint' = 0
  /\ minLostPoint' = 0
  /\ pattern' = 0
  /\ op' = "make"
  /\ arg' = << >>
  /\ ret' = << >>
  /\ err' = "none"
  /\ builds' = << >>
  /\ pre' = qr
  /\ UNCHANGED << qr, made, sel, cap, lib >>

\* A comparison that lets a later pattern of the same lost point win.
BetterPatternOrEqual(k, min, lost) == k = 0 \/ min >= lost

\* if (i == 0 || minLostPoint > lostPoint).
BetterPattern(k, min, lost) == k = 0 \/ min > lost

\* A loop that ends one pass early.
LastTrialEarly(k) == ~(k + 1 < 8 - 1)

\* The loop for (i = 0; i < 8; i++) ends after the pass k.
LastTrial(k) == ~(k + 1 < 8)

\* What a make that ended leaves for the next one to be compared with.
Made(q, p) == [modules |-> q.modules, moduleCount |-> q.moduleCount, pattern |-> p]

\* The pass i when makeImpl threw: make ends with the exception.
TrialThrown ==
  /\ err' = makeImplThrows(qr)
  /\ pc' = "idle"
  /\ builds' = Append(builds, [call |-> "makeImpl", test |-> TRUE, mask |-> iTrial])
  /\ made' = Made(qr', pattern)
  /\ UNCHANGED << iTrial, lostPoint, minLostPoint, pattern >>

\* The pass i when makeImpl returned: getLostPoint, and the comparison.
TrialScored ==
  /\ lostPoint' = getLostPoint(qr'.modules, qr'.moduleCount)
  /\ builds' = builds \o
                << [call |-> "makeImpl", test |-> TRUE, mask |-> iTrial],
                   [call |-> "getLostPoint", value |-> lostPoint'] >>
  /\ minLostPoint' = IF BetterPattern(iTrial, minLostPoint, lostPoint')
                     THEN lostPoint' ELSE minLostPoint
  /\ pattern' = IF BetterPattern(iTrial, minLostPoint, lostPoint') THEN iTrial ELSE pattern
  /\ iTrial' = iTrial + 1
  /\ pc' = IF LastTrial(iTrial) THEN "final" ELSE "trial"
  /\ UNCHANGED << err, made >>

\* One pass of the loop of getBestMaskPattern: makeImpl(true, i), then
\* getLostPoint; an exception of makeImpl ends make.
MakeTrial ==
  /\ pc = "trial"
  /\ qr' = makeImpl(qr, TRUE, iTrial)
  /\ IF makeImplThrows(qr) # "none" THEN TrialThrown ELSE TrialScored
  /\ UNCHANGED << op, arg, ret, pre, sel, cap, lib >>

\* A make that uses its segments up.
MakeFinalConsuming ==
  /\ pc = "final"
  /\ qr' = [makeImpl(qr, FALSE, pattern) EXCEPT !.dataList = << >>,
                                               !.dataCache = NullCache]
  /\ err' = makeImplThrows(qr)
  /\ made' = Made(qr', pattern)
  /\ builds' = Append(builds, [call |-> "makeImpl", test |-> FALSE, mask |-> pattern])
  /\ pc' = "idle"
  /\ UNCHANGED << iTrial, lostPoint, minLostPoint, pattern, op, arg, ret, pre, sel, cap, lib >>

\* this.makeImpl(false, pattern) of make, and make returns.
MakeFinal ==
  /\ pc = "final"
  /\ qr' = makeImpl(qr, FALSE, pattern)
  /\ err' = makeImplThrows(qr)
  /\ made' = Made(qr', pattern)
  /\ builds' = Append(builds, [call |-> "makeImpl", test |-> FALSE, mask |-> pattern])
  /\ pc' = "idle"
  /\ UNCHANGED << iTrial, lostPoint, minLostPoint, pattern, op, arg, ret, pre, sel, cap, lib >>

Next ==
  \/ \E data \in Texts : addData(data)
  \/ \E row \in Coords, col \in Coords : isDark(row, col)
  \/ MakeBegin
  \/ MakeTrial
  \/ MakeFinal

Spec == Init /\ [][Next]_vars

(***************************************************************************)
(* The version selector alone: _getTypeNumber(sText, nCorrectLevel) is     *)
(* called once on a text and a level of QRErrorCorrectLevel.               *)
(***************************************************************************)
\* The levels of QRErrorCorrectLevel.
Levels ==
  { QRErrorCorrectLevel.L, QRErrorCorrectLevel.M, QRErrorCorrectLevel.Q,
    QRErrorCorrectLevel.H }

\* The lengths around every entry of QRCodeLimitLength: from 4 below it to
\* 1 above it.
SelLengths ==
  { QRCodeLimitLength[v][c] + d : v \in 1..Len(QRCodeLimitLength), c \in 1..4, d \in -4..1 }

\* The texts: "A" repeated, and "", "1", "02", "5", "é", "AAé", the euro
\* sign, U+1F600 (a surrogate pair), and its first unit alone.
SelTexts ==
  { Repeat(65, len) : len \in SelLengths }
  \cup { << >>, << 49 >>, << 48, 50 >>, << 53 >>, << 233 >>, << 65, 65, 233 >>,
         << 8364 >>, << 55357, 56832 >>, << 55357 >> }

InitSel ==
  /\ New(1, QRErrorCorrectLevel.H)
  /\ cap = NoCall
  /\ lib = NoCall
  /\ \E sText \in SelTexts, nCorrectLevel \in Levels :
       sel = [sText |-> sText, nCorrectLevel |-> nCorrectLevel,
              done |-> FALSE, thrown |-> "none", nType |-> 0]

\* The call returns or throws.
SelectType ==
  /\ ~sel.done
  /\ sel' = [sel EXCEPT !.done = TRUE,
                        !.thrown = _getTypeNumber(sel.sText, sel.nCorrectLevel).err,
                        !.nType = _getTypeNumber(sel.sText, sel.nCorrectLevel).nType]
  /\ UNCHANGED << qr, pc, iTrial, lostPoint, minLostPoint, pattern, op, arg, ret,
                  err, builds, pre, made, cap, lib >>

NextSel == SelectType

SpecSel == InitSel /\ [][NextSel]_vars

(***************************************************************************)
(* createData alone: one segment of "A" repeated, of the length of the     *)
(* entry of QRCodeLimitLength for the version and level or one more.       *)
(***************************************************************************)
InitCap ==
  /\ New(1, QRErrorCorrectLevel.H)
  /\ sel = NoCall
  /\ lib = NoCall
  /\ \E v \in 1..Len(QRCodeLimitLength), errorCorrectLevel \in Levels, d \in 0..1 :
       cap = [typeNumber |-> v, errorCorrectLevel |-> errorCorrectLevel,
              length |-> QRCodeLimitLength[v][LimitColumn(errorCorrectLevel)] + d,
              done |-> FALSE, thrown |-> "none"]

\* createData(typeNumber, errorCorrectLevel, [new QR8bitByte(text)]) returns
\* or throws.
CreateSegment ==
  /\ ~cap.done
  /\ cap' = [cap EXCEPT !.done = TRUE,
                        !.thrown = createDataThrows(cap.typeNumber, cap.errorCorrectLevel,
                                                   << QR8bitByte(Repeat(65, cap.length)) >>)]
  /\ UNCHANGED << qr, pc, iTrial, lostPoint, minLostPoint, pattern, op, arg, ret,
                  err, builds, pre, made, sel, lib >>

NextCap == CreateSegment

SpecCap == InitCap /\ [][NextCap]_vars

(***************************************************************************)
(* Builds of every version: one segment is added to a new model of any     *)
(* version, and then makeImpl(test, maskPattern) is called on it once, or, *)
(* for the small versions, make().                                         *)
(***************************************************************************)
\* The versions for which every test flag and mask pattern is built and
\* make() is run; the larger versions are built once each.
MaxSmall == 4

\* The bit buffer of the put and putBit calls holds at most MaxBits bits.
MaxBits == 11

\* gexp is called on the exponents -MaxExponent..MaxExponent.
MaxExponent == 600

\* The versions 1..40.
BuildVersions == 1..Len(QRCodeLimitLength)

\* The level of the model of a version: the four levels in turn.
BuildLevel(v) ==
  << QRErrorCorrectLevel.L, QRErrorCorrectLevel.M, QRErrorCorrectLevel.Q,
     QRErrorCorrectLevel.H >>[(v % 4) + 1]

\* The text added: "AB".
BuildText == << 65, 66 >>

\* The arguments makeImpl is called with on a model of version v.
BuildInputs(v) ==
  IF v <= MaxSmall THEN BOOLEAN \X (0..7) ELSE { << v % 2 = 1, v % 8 >> }

\* getModuleCount().
getModuleCount(q) == q.moduleCount

InitBuild ==
  /\ \E v \in BuildVersions : New(v, BuildLevel(v))
  /\ sel = NoCall
  /\ cap = NoCall
  /\ lib = NoCall

\* addData(BuildText) on the new model.
AddText == op = "new" /\ addData(BuildText)

\* makeImpl(test, maskPattern), called once on the model that holds the text.
BuildOnce(test, maskPattern) ==
  /\ pc = "idle"
  /\ op = "addData"
  /\ << test, maskPattern >> \in BuildInputs(qr.typeNumber)
  /\ qr' = makeImpl(qr, test, maskPattern)
  /\ op' = "makeImpl"
  /\ arg' = << test, maskPattern >>
  /\ ret' = << >>
  /\ err' = makeImplThrows(qr)
  /\ builds' = << [call |-> "makeImpl", test |-> test, mask |-> maskPattern] >>
  /\ pre' = qr
  /\ made' = NoMake
  /\ UNCHANGED << pc, iTrial, lostPoint, minLostPoint, pattern, sel, cap, lib >>

\* make() on the model of a small version that holds the text.
MakeSmall == qr.typeNumber <= MaxSmall /\ op = "addData" /\ MakeBegin

NextBuild ==
  \/ AddText
  \/ \E test \in BOOLEAN, maskPattern \in 0..7 : BuildOnce(test, maskPattern)
  \/ MakeSmall
  \/ MakeTrial
  \/ MakeFinal

SpecBuild == InitBuild /\ [][NextBuild]_vars

(***************************************************************************)
(* QRCode.prototype.makeCode(sText) on a QRCode of some correctLevel: the  *)
(* version is selected, the model is made of it, the text is added and     *)
(* make() runs.                                                            *)
(***************************************************************************)
\* The texts encoded: "", "1", "5", "AB", "é", "AAé", 7, 14 and 15 times "A",
\* the euro sign, U+1F600 (a surrogate pair), and its first unit alone.
CodeTexts ==
  { << >>, << 49 >>, << 53 >>, << 65, 66 >>, << 233 >>, << 65, 65, 233 >>,
    Repeat(65, 7), Repeat(65, 14), Repeat(65, 15),
    << 8364 >>, << 55357, 56832 >>, << 55357 >> }

InitCode == InitSel /\ sel.sText \in CodeTexts

\* makeCode(sText) up to the call of make(): _getTypeNumber returns or
\* throws, and when it returns the new model holds the text.
MakeCode ==
  /\ ~sel.done
  /\ sel' = [sel EXCEPT !.done = TRUE,
                        !.thrown = _getTypeNumber(sel.sText, sel.nCorrectLevel).err,
                        !.nType = _getTypeNumber(sel.sText, sel.nCorrectLevel).nType]
  /\ op' = "makeCode"
  /\ arg' = << sel.sText >>
  /\ ret' = << >>
  /\ err' = sel'.thrown
  /\ builds' = << >>
  /\ made' = NoMake
  /\ IF sel'.thrown # "none"
     THEN UNCHANGED << qr, pc, pre >>
     ELSE /\ qr' = [QRCodeModel(sel'.nType, sel.nCorrectLevel)
                      EXCEPT !.dataList = << QR8bitByte(sel.sText) >>]
          /\ pre' = qr'
          /\ pc' = "trial"
  /\ iTrial' = 0
  /\ lostPoint' = 0
  /\ minLostPoint' = 0
  /\ pattern' = 0
  /\ UNCHANGED << cap, lib >>

NextCode ==
  \/ MakeCode
  \/ MakeTrial
  \/ MakeFinal

SpecCode == InitCode /\ [][NextCode]_vars

(***************************************************************************)
(* The block table and the codeword builder alone: one call of             *)
(* QRRSBlock.getRSBlocks(typeNumber, errorCorrectLevel), or one call of    *)
(* QRCodeModel.createData(typeNumber, errorCorrectLevel, dataList).        *)
(***************************************************************************)
\* The versions asked of getRSBlocks: those of the table and one beyond it.
LibVersions == 1..(Len(RS_BLOCK_TABLE) \div 4 + 1)

\* The levels asked: those of QRErrorCorrectLevel and one that is none of them.
LibLevels == Levels \cup { 4 }

\* The segment lists encoded: none, "AB", 7 times "A", "AB" with "CCCC",
\* "AB" with "CCC", "AB" twice, 11 times "A" followed by 13 NUL characters,
\* 30 times "A", "AB" with "é", and "#".
LibDataLists ==
  { << >>,
    << QR8bitByte(<< 35 >>) >>,
    << QR8bitByte(<< 65, 66 >>) >>,
    << QR8bitByte(Repeat(65, 7)) >>,
    << QR8bitByte(<< 65, 66 >>), QR8bitByte(Repeat(67, 4)) >>,
    << QR8bitByte(<< 65, 66 >>), QR8bitByte(Repeat(67, 3)) >>,
    << QR8bitByte(<< 65, 66 >>), QR8bitByte(<< 65, 66 >>) >>,
    << QR8bitByte(Repeat(65, 11) \o Repeat(0, 13)) >>,
    << QR8bitByte(Repeat(65, 30)) >>,
    << QR8bitByte(<< 65, 66 >>), QR8bitByte(<< 233 >>) >> }

\* The versions and levels createData is called with.
LibConfigs ==
  { << 1, QRErrorCorrectLevel.H >>, << 1, QRErrorCorrectLevel.L >>,
    << 1, QRErrorCorrectLevel.M >>, << 3, QRErrorCorrectLevel.H >>,
    << 5, QRErrorCorrectLevel.Q >>, << 5, QRErrorCorrectLevel.H >>,
    << 10, QRErrorCorrectLevel.L >>, << 1, 4 >> }

InitLib ==
  /\ New(1, QRErrorCorrectLevel.H)
  /\ sel = NoCall
  /\ cap = NoCall
  /\ \/ \E v \in LibVersions, errorCorrectLevel \in LibLevels :
          lib = [fn |-> "getRSBlocks", typeNumber |-> v,
                 errorCorrectLevel |-> errorCorrectLevel,
                 done |-> FALSE, thrown |-> "none", value |-> << >>]
     \/ \E c \in LibConfigs, dataList \in LibDataLists :
          lib = [fn |-> "createData", typeNumber |-> c[1], errorCorrectLevel |-> c[2],
                 dataList |-> dataList, done |-> FALSE, thrown |-> "none",
                 rsBlocks |-> << >>, buffer |-> QRBitBuffer,
                 dcdata |-> << >>, ecdata |-> << >>, value |-> << >>]

\* QRRSBlock.getRSBlocks(typeNumber, errorCorrectLevel) returns its list or
\* throws.
CallRSBlocks ==
  /\ lib.fn = "getRSBlocks"
  /\ ~lib.done
  /\ lib' = IF getRSBlocksThrows(lib.typeNumber, lib.errorCorrectLevel)
            THEN [lib EXCEPT !.done = TRUE, !.thrown = "bad rs block"]
            ELSE [lib EXCEPT !.done = TRUE,
                             !.value = getRSBlocks(lib.typeNumber, lib.errorCorrectLevel)]
  /\ UNCHANGED << qr, pc, iTrial, lostPoint, minLostPoint, pattern, op, arg, ret,
                  err, builds, pre, made, sel, cap >>

\* The locals of createData and createBytes when the call returns: rsBlocks,
\* the padded buffer, dcdata, ecdata, and the data returned.
CreateDataLocals(call, rsBlocks, buffer, dcdata) ==
  [call EXCEPT !.done = TRUE, !.rsBlocks = rsBlocks, !.buffer = buffer,
               !.dcdata = dcdata,
               !.ecdata = EcData(dcdata, rsBlocks, 1, Len(rsBlocks)),
               !.value = CreateBytesFrom(dcdata, rsBlocks)]

CreateDataPadded(call, rsBlocks, buffer) ==
  CreateDataLocals(call, rsBlocks, buffer, DcData(buffer, rsBlocks, 1, Len(rsBlocks)))

CreateDataBlocks(call, rsBlocks) ==
  CreateDataPadded(call, rsBlocks,
                   PaddedBuffer(DataBuffer(call.typeNumber, call.dataList),
                                TotalDataCount(rsBlocks)))

\* QRCodeModel.createData(typeNumber, errorCorrectLevel, dataList) returns
\* its codewords or throws.
CallCreateData ==
  /\ lib.fn = "createData"
  /\ ~lib.done
  /\ lib' = IF createDataThrows(lib.typeNumber, lib.errorCorrectLevel, lib.dataList) # "none"
            THEN [lib EXCEPT !.done = TRUE,
                             !.thrown = createDataThrows(lib.typeNumber,
                                                         lib.errorCorrectLevel,
                                                         lib.dataList)]
            ELSE CreateDataBlocks(lib, getRSBlocks(lib.typeNumber, lib.errorCorrectLevel))
  /\ UNCHANGED << qr, pc, iTrial, lostPoint, minLostPoint, pattern, op, arg, ret,
                  err, builds, pre, made, sel, cap >>

NextLib == CallRSBlocks \/ CallCreateData

SpecLib == InitLib /\ [][NextLib]_vars

(***************************************************************************)
(* The utility functions alone: one call of a function of QRUtil, QRMath,  *)
(* QRPolynomial, QR8bitByte or QRBitBuffer on arguments of its own.        *)
(***************************************************************************)
\* The calls of getBCHTypeInfo, on the 5-bit values, and of
\* getBCHTypeNumber, on the versions.
BCHCalls ==
  { [fn |-> "getBCHTypeInfo", data |-> d, done |-> FALSE, thrown |-> "none", value |-> 0] :
      d \in 0..31 }
  \cup
  { [fn |-> "getBCHTypeNumber", data |-> v, done |-> FALSE, thrown |-> "none", value |-> 0] :
      v \in 1..Len(QRCodeLimitLength) }

\* The texts made segments of: "", "AB", NUL, the code units around 0x80 and
\* 0x800, "é", "Aé", the euro sign, the last code unit, a surrogate pair.
SegmentTexts ==
  { << >>, << 65, 66 >>, << 0 >>, << 127 >>, << 128 >>, << 129 >>, << 233 >>,
    << 65, 233 >>, << 2047 >>, << 2048 >>, << 2049 >>, << 8364 >>, << 65535 >>,
    << 55357, 56832 >>, << 239, 187, 191 >> }

SegmentCalls ==
  { [fn |-> "QR8bitByte", data |-> text, done |-> FALSE, thrown |-> "none",
     value |-> 0, length |-> 0] : text \in SegmentTexts }

\* The polynomials multiplied: new QRPolynomial(num, 0) of these coefficients.
\* Some have a 0 below the leading coefficient, which the constructor keeps.
MultiplyOperands ==
  { QRPolynomial(num, 0) :
      num \in { << 1 >>, << 1, 1 >>, << 2, 3 >>, << 1, 0, 1 >>, << 3, 0 >>,
                << 29, 0, 0 >>, << 0, 7, 255 >>, << 142, 1, 200 >> } }

MultiplyCalls ==
  { [fn |-> "multiply", a |-> a, e |-> e, done |-> FALSE, thrown |-> "none",
     value |-> << >>] : a \in MultiplyOperands, e \in MultiplyOperands }

\* gexp on the integers of -MaxExponent..MaxExponent, glog on -3..255.
MathCalls ==
  { [fn |-> "gexp", data |-> n, done |-> FALSE, thrown |-> "none", value |-> 0]
      : n \in (0 - MaxExponent)..MaxExponent }
  \cup
  { [fn |-> "glog", data |-> n, done |-> FALSE, thrown |-> "none", value |-> 0]
      : n \in (0 - 3)..255 }

\* The dividends of mod: new QRPolynomial(num, shift), with a 0 among the
\* coefficients, with none left, and with shift unset coefficients behind.
ModDividends ==
  { QRPolynomial(num, shift) :
      num \in { << 0 >>, << 7 >>, << 1, 1 >>, << 32, 91, 11 >>, << 64, 0, 0 >>,
                << 1, 0, 0, 1 >>, << 0, 0, 5 >>, << 1, 3, 2 >>, << 2, 6, 4, 9 >> },
      shift \in 0..2 }

\* The divisors: every coefficient in 1..255; <<1, 3, 2>> is
\* getErrorCorrectPolynomial(2).
ModDivisors ==
  { QRPolynomial(num, 0) :
      num \in { << 1 >>, << 1, 1 >>, << 5, 7 >>, << 1, 3, 2 >>, << 1, 7, 14, 8 >> } }

\* p is the polynomial the next call of mod is made on.
ModCalls ==
  { [fn |-> "mod", start |-> a, p |-> a, e |-> e, done |-> FALSE, thrown |-> "none",
     value |-> << >>] : a \in ModDividends, e \in ModDivisors }

\* A new QRBitBuffer, on which put and putBit are then called; count is the
\* number of bits the calls were asked to append, and last the latest call.
BufferCalls ==
  { [fn |-> "QRBitBuffer", b |-> QRBitBuffer, count |-> 0,
     last |-> [call |-> "new", n |-> 0], done |-> FALSE, thrown |-> "none"] }

\* The arguments of put: the mode, a length, a pad byte, and more bits
\* than the length asks for.
PutNums == { 0, MODE_8BIT_BYTE, 5, PAD0, 1023 }

PutLengths == { 0, 1, 4, 8 }

UtilCalls ==
  BCHCalls \cup SegmentCalls \cup MultiplyCalls \cup MathCalls \cup ModCalls
  \cup BufferCalls

InitUtil ==
  /\ New(1, QRErrorCorrectLevel.H)
  /\ sel = NoCall
  /\ cap = NoCall
  /\ lib \in UtilCalls

\* QRUtil.getBCHTypeInfo(data) returns.
CallBCHTypeInfo ==
  /\ lib.fn = "getBCHTypeInfo"
  /\ ~lib.done
  /\ lib' = [lib EXCEPT !.done = TRUE, !.value = getBCHTypeInfo(lib.data)]
  /\ UNCHANGED << qr, pc, iTrial, lostPoint, minLostPoint, pattern, op, arg, ret,
                  err, builds, pre, made, sel, cap >>

\* QRUtil.getBCHTypeNumber(data) returns.
CallBCHTypeNumber ==
  /\ lib.fn = "getBCHTypeNumber"
  /\ ~lib.done
  /\ lib' = [lib EXCEPT !.done = TRUE, !.value = getBCHTypeNumber(lib.data)]
  /\ UNCHANGED << qr, pc, iTrial, lostPoint, minLostPoint, pattern, op, arg, ret,
                  err, builds, pre, made, sel, cap >>

\* new QR8bitByte(data), then getLength() on it.
NewSegment ==
  /\ lib.fn = "QR8bitByte"
  /\ ~lib.done
  /\ lib' = [lib EXCEPT !.done = TRUE, !.value = QR8bitByte(lib.data),
                        !.length = getLength(QR8bitByte(lib.data))]
  /\ UNCHANGED << qr, pc, iTrial, lostPoint, minLostPoint, pattern, op, arg, ret,
                  err, builds, pre, made, sel, cap >>

\* a.multiply(e): the Error of glog leaves it, and else the product.
CallMultiply ==
  /\ lib.fn = "multiply"
  /\ ~lib.done
  /\ lib' = IF multiplyThrows(lib.a, lib.e)
            THEN [lib EXCEPT !.done = TRUE, !.thrown = "glog"]
            ELSE [lib EXCEPT !.done = TRUE, !.value = multiply(lib.a, lib.e)]
  /\ UNCHANGED << qr, pc, iTrial, lostPoint, minLostPoint, pattern, op, arg, ret,
                  err, builds, pre, made, sel, cap >>

\* QRMath.gexp(n).
CallGexp ==
  /\ lib.fn = "gexp"
  /\ ~lib.done
  /\ lib' = [lib EXCEPT !.done = TRUE, !.value = gexp(lib.data)]
  /\ UNCHANGED << qr, pc, iTrial, lostPoint, minLostPoint, pattern, op, arg, ret,
                  err, builds, pre, made, sel, cap >>

\* QRMath.glog(n): the Error for n < 1, and else the entry of LOG_TABLE.
CallGlog ==
  /\ lib.fn = "glog"
  /\ ~lib.done
  /\ lib' = IF glogThrows(lib.data)
            THEN [lib EXCEPT !.done = TRUE, !.thrown = "glog"]
            ELSE [lib EXCEPT !.done = TRUE, !.value = glog(lib.data)]
  /\ UNCHANGED << qr, pc, iTrial, lostPoint, minLostPoint, pattern, op, arg, ret,
                  err, builds, pre, made, sel, cap >>

\* One call of p.mod(e): it returns p when p is shorter than e, and else
\* calls mod on the polynomial of the division step.
CallMod ==
  /\ lib.fn = "mod"
  /\ ~lib.done
  /\ lib' = IF Len(lib.p) - Len(lib.e) < 0
            THEN [lib EXCEPT !.done = TRUE, !.value = lib.p]
            ELSE [lib EXCEPT !.p = modStep(lib.p, lib.e)]
  /\ UNCHANGED << qr, pc, iTrial, lostPoint, minLostPoint, pattern, op, arg, ret,
                  err, builds, pre, made, sel, cap >>

\* buffer.putBit(bit).
BufferPutBit ==
  /\ lib.fn = "QRBitBuffer"
  /\ lib.b.length + 1 <= MaxBits
  /\ \E bit \in BOOLEAN :
       lib' = [lib EXCEPT !.b = putBit(lib.b, bit), !.count = @ + 1,
                          !.last = [call |-> "putBit", n |-> 1]]
  /\ UNCHANGED << qr, pc, iTrial, lostPoint, minLostPoint, pattern, op, arg, ret,
                  err, builds, pre, made, sel, cap >>

\* buffer.put(num, length).
BufferPut ==
  /\ lib.fn = "QRBitBuffer"
  /\ \E num \in PutNums, length \in PutLengths :
       /\ lib.b.length + length <= MaxBits
       /\ lib' = [lib EXCEPT !.b = put(lib.b, num, length), !.count = @ + length,
                             !.last = [call |-> "put", n |-> length]]
  /\ UNCHANGED << qr, pc, iTrial, lostPoint, minLostPoint, pattern, op, arg, ret,
                  err, builds, pre, made, sel, cap >>

NextUtil ==
  \/ CallBCHTypeInfo
  \/ CallBCHTypeNumber
  \/ NewSegment
  \/ CallMultiply
  \/ CallGexp
  \/ CallGlog
  \/ CallMod
  \/ BufferPutBit
  \/ BufferPut

SpecUtil == InitUtil /\ [][NextUtil]_vars

(***************************************************************************)
(* Properties.                                                             *)
(***************************************************************************)
\* A make has just ended, by its return or by an exception.
MakeEnded == op = "make" /\ pc = "idle"
MakeReturned == MakeEnded /\ err = "none"
MakeThrew == MakeEnded /\ err # "none"

\* The matrix of makeImpl(test, maskPattern) on a model that was never
\* built and holds the codewords.
FreshBuild(typeNumber, errorCorrectLevel, test, maskPattern, codewords) ==
  makeImpl([QRCodeModel(typeNumber, errorCorrectLevel) EXCEPT !.dataCache = codewords],
           test, maskPattern).modules

\* C1: a make() that ends after an earlier make(), with no addData between
\* the two, leaves moduleCount and the module grid as the earlier one left
\* them.
C1_MakeTwiceSameGrid ==
  [][(pc # "idle" /\ pc' = "idle" /\ made # NoMake)
       => (qr'.moduleCount = made.moduleCount /\ qr'.modules = made.modules)]_vars

\* A second make returned: the cache was there when it was called.
C1_Witness ==
  /\ MakeReturned
  /\ pre.dataCache # NullCache
  /\ Len(qr.dataList) > 0
  /\ qr.modules = pre.modules

\* C2 as the specification states it: a make() that throws leaves modules,
\* moduleCount and dataCache as they were when it was called.
C2_FailedMakeRestores ==
  MakeThrew => /\ qr.modules = pre.modules
               /\ qr.moduleCount = pre.moduleCount
               /\ qr.dataCache = pre.dataCache

\* C2, corrected: a make() that throws leaves dataCache (null), dataList and
\* the version and level as they were, but moduleCount is 4 * typeNumber +
\* 17 and modules holds the function patterns of the test build of mask 0,
\* whose data cells are not set.
C2_FailedMakeLeavesSetup ==
  MakeThrew => /\ qr.dataCache = pre.dataCache
               /\ qr.dataCache = NullCache
               /\ qr.dataList = pre.dataList
               /\ qr.typeNumber = pre.typeNumber
               /\ qr.errorCorrectLevel = pre.errorCorrectLevel
               /\ qr.moduleCount = qr.typeNumber * 4 + 17
               /\ qr.modules = SetupGrid(pre, TRUE, 0)
               /\ Cell(qr.modules, qr.moduleCount - 1, qr.moduleCount - 1) = Null

\* A make threw on a model whose grid was complete.
C2_Witness ==
  /\ MakeThrew
  /\ err = "code length overflow"
  /\ pre.modules # NullModules
  /\ Cell(pre.modules, pre.moduleCount - 1, pre.moduleCount - 1) # Null
  /\ Cell(qr.modules, qr.moduleCount - 1, qr.moduleCount - 1) = Null

\* The number of bytes of the UTF-8 encoding of a text.
Utf8Bytes(sText) == ReplacedLength(sText, 1, Len(sText))

\* The versions whose entry of QRCodeLimitLength holds the length.
FitVersions(length, nCorrectLevel) ==
  { v \in 1..Len(QRCodeLimitLength) :
      QRCodeLimitLength[v][LimitColumn(nCorrectLevel)] >= length }

\* C3: when some version holds the UTF-8 byte length of the text, the
\* selector returns the least such version.
C3_LeastVersion ==
  (sel # NoCall /\ sel.done /\ FitVersions(Utf8Bytes(sel.sText), sel.nCorrectLevel) # {})
    => /\ sel.thrown = "none"
       /\ sel.nType \in FitVersions(Utf8Bytes(sel.sText), sel.nCorrectLevel)
       /\ \A v \in FitVersions(Utf8Bytes(sel.sText), sel.nCorrectLevel) : sel.nType <= v

\* C4: when the UTF-8 byte length of the text is above the entry of
\* version 40, the selector throws "Too long data".
C4_TooLongData ==
  (sel # NoCall /\ sel.done /\ FitVersions(Utf8Bytes(sel.sText), sel.nCorrectLevel) = {})
    => sel.thrown = "Too long data"

\* C5: a segment of QRCodeLimitLength[v-1][level] bytes passes the overflow
\* check of createData, and a segment of one byte more fails it.
C5_LimitIsCapacity ==
  (cap # NoCall /\ cap.done)
    => IF cap.length <= QRCodeLimitLength[cap.typeNumber][LimitColumn(cap.errorCorrectLevel)]
       THEN cap.thrown = "none"
       ELSE cap.thrown = "code length overflow"

\* The lost point getLostPoint returned for the mask k in the last make.
LostOf(k) == builds[2 * k + 2].value

\* C6: the pattern getBestMaskPattern returns is the least index of 0..7
\* whose lost point is the least, and it is the pattern of the make before
\* when no addData came between.
C6_BestMaskPattern ==
  pc = "final"
    => /\ pattern \in 0..7
       /\ \A k \in 0..7 : LostOf(pattern) <= LostOf(k)
       /\ \A k \in 0..7 : k < pattern => LostOf(k) > LostOf(pattern)
       /\ made # NoMake => pattern = made.pattern

\* Two patterns share the least lost point.
C6_Witness ==
  /\ pc = "final"
  /\ pattern > 0
  /\ \E k \in 0..7 : k > pattern /\ LostOf(k) = LostOf(pattern)

\* isDark was called with a row or column outside the grid.
OutOfGrid ==
  arg[1] < 0 \/ qr.moduleCount <= arg[1] \/ arg[2] < 0 \/ qr.moduleCount <= arg[2]

\* The last make, if any, ran to its final build.
LastMakeReturned == Len(builds) > 0 /\ builds[Len(builds)].test = FALSE

BitsOf(num, width) == [k \in 1..width |-> BitAt(num, width - k)]

\* The bits of the bytes lo..hi of a segment.
RECURSIVE ByteBits(_, _, _)
ByteBits(bytes, lo, hi) ==
  IF lo > hi THEN << >>
  ELSE IF lo = hi THEN BitsOf(bytes[lo], 8)
  ELSE LET mid == (lo + hi) \div 2
       IN  ByteBits(bytes, lo, mid) \o ByteBits(bytes, mid + 1, hi)

\* The bit stream of the segments lo..hi in the order of the list, for a
\* version below 10: mode on 4 bits, byte count on 8 bits, the bytes.
RECURSIVE SegmentBits(_, _, _)
SegmentBits(list, lo, hi) ==
  IF lo > hi THEN << >>
  ELSE IF lo = hi
       THEN BitsOf(list[lo].mode, 4) \o BitsOf(Len(list[lo].parsedData), 8)
            \o ByteBits(list[lo].parsedData, 1, Len(list[lo].parsedData))
  ELSE LET mid == (lo + hi) \div 2
       IN  SegmentBits(list, lo, mid) \o SegmentBits(list, mid + 1, hi)

\* The bit k (from 0) of the codewords.
CodewordBit(codewords, k) == BitAt(codewords[(k \div 8) + 1], 7 - (k % 8))

\* The codewords begin with the bit stream.
BeginsWith(codewords, bits) ==
  \A k \in 1..Len(bits) : CodewordBit(codewords, k - 1) = bits[k]

\* C8: addData appends one segment, of its text, to dataList and sets
\* dataCache to null, and changes nothing else of the model; the codewords
\* of a make that returns are those of all the segments in the order they
\* were added.
C8_AddDataAppends ==
  /\ [][op' = "addData"
          => /\ qr'.dataList = Append(qr.dataList, QR8bitByte(arg'[1]))
             /\ qr'.dataCache = NullCache
             /\ qr'.modules = qr.modules
             /\ qr'.moduleCount = qr.moduleCount
             /\ qr'.typeNumber = qr.typeNumber
             /\ qr'.errorCorrectLevel = qr.errorCorrectLevel]_vars
  /\ [](MakeReturned
          => /\ qr.dataCache = createData(qr.typeNumber, qr.errorCorrectLevel, qr.dataList)
             /\ BeginsWith(qr.dataCache, SegmentBits(qr.dataList, 1, Len(qr.dataList))))

\* A make returned on two different segments, the second added after a
\* make.
C8_Witness ==
  /\ MakeReturned
  /\ Len(qr.dataList) = 2
  /\ qr.dataList[1] # qr.dataList[2]
  /\ pre.modules # NullModules

\* C9: a make() that returns ran nine builds: the test builds of the masks
\* 0..7 in order, each followed by getLostPoint, then one build that is no
\* test, with the pattern selected; the matrix is the one of that build.
C9_NineBuilds ==
  MakeReturned
    => /\ Len(builds) = 17
       /\ \A k \in 0..7 :
            /\ builds[2 * k + 1] = [call |-> "makeImpl", test |-> TRUE, mask |-> k]
            /\ builds[2 * k + 2].call = "getLostPoint"
       /\ builds[17] = [call |-> "makeImpl", test |-> FALSE, mask |-> pattern]
       /\ qr.modules = FreshBuild(qr.typeNumber, qr.errorCorrectLevel, FALSE, pattern,
                                  qr.dataCache)

\* A make returned with a pattern that is not the first.
C9_Witness ==
  /\ MakeReturned
  /\ Len(builds) = 17
  /\ pattern # 0

\* The last makeImpl of the log.
LastBuild ==
  IF builds[Len(builds)].call = "makeImpl" THEN builds[Len(builds)]
  ELSE builds[Len(builds) - 1]

\* C10: after every build of a make the matrix is the one makeImpl gives,
\* for the same version, level, test flag, mask and codewords, on a model
\* never built: nothing of the modules before the build is left.
C10_BuildFromScratch ==
  (op = "make" /\ err = "none" /\ Len(builds) > 0)
    => qr.modules = FreshBuild(qr.typeNumber, qr.errorCorrectLevel, LastBuild.test,
                               LastBuild.mask, qr.dataCache)

\* A test build over the complete grid of an earlier make, other segments.
C10_Witness ==
  /\ op = "make"
  /\ pc = "trial"
  /\ iTrial = 3
  /\ pre.modules # NullModules
  /\ pre.dataCache = NullCache

\* Some build has run since make or makeImpl was called.
BuildDone == op \in { "make", "makeImpl" } /\ Len(builds) > 0

\* C11: after any build, of any version 1..40, getModuleCount() is
\* 4 * typeNumber + 17 and the matrix has that many rows of that many cells.
C11_GridSide ==
  BuildDone
    => /\ getModuleCount(qr) = qr.typeNumber * 4 + 17
       /\ Len(qr.modules) = qr.typeNumber * 4 + 17
       /\ \A r \in 1..Len(qr.modules) : Len(qr.modules[r]) = qr.typeNumber * 4 + 17

\* The build of version 40 is done: 177 rows.
C11_Witness ==
  /\ BuildDone
  /\ qr.typeNumber = 40
  /\ Len(qr.modules) = 177

\* makeCode has ended, by the return of make() or by an exception.
MakeCodeEnded == op = "makeCode" /\ pc = "idle"

\* The data codewords of a model of one block: the first dataCount bytes of
\* the cache.
DataCodewords(q) ==
  SubSeq(q.dataCache, 1, TotalDataCount(getRSBlocks(q.typeNumber, q.errorCorrectLevel)))

\* C12: makeCode("") selects version 1 and make() returns; the data
\* codewords are 0100, the length 00000000, the terminator 0000, that is
\* the bytes 0x40 and 0x00, and after them only the pad bytes 0xEC and 0x11
\* in turn.
C12_EmptyString ==
  (MakeCodeEnded /\ sel.sText = << >>)
    => /\ err = "none"
       /\ sel.nType = 1
       /\ qr.typeNumber = 1
       /\ Len(qr.dataList) = 1
       /\ Len(DataCodewords(qr)) >= 9
       /\ DataCodewords(qr)[1] = 64
       /\ DataCodewords(qr)[2] = 0
       /\ \A k \in 3..Len(DataCodewords(qr)) :
            DataCodewords(qr)[k] = IF k % 2 = 1 THEN 236 ELSE 17

\* makeCode("") has returned at level L: 19 data codewords, 17 of them pads.
C12_Witness ==
  /\ MakeCodeEnded
  /\ sel.sText = << >>
  /\ sel.nCorrectLevel = QRErrorCorrectLevel.L
  /\ Len(builds) = 17
  /\ Len(DataCodewords(qr)) = 19

\* The row of RS_BLOCK_TABLE of a version and a level, << >> when the table
\* has none: four rows a version, in the order L, M, Q, H.
RowOf(typeNumber, errorCorrectLevel) ==
  IF typeNumber \in 1..40 /\ errorCorrectLevel \in Levels
  THEN RS_BLOCK_TABLE[(typeNumber - 1) * 4
                      + (CHOOSE c \in 1..4 :
                           << QRErrorCorrectLevel.L, QRErrorCorrectLevel.M,
                              QRErrorCorrectLevel.Q, QRErrorCorrectLevel.H >>[c]
                             = errorCorrectLevel)]
  ELSE << >>

\* The groups of a row, and the number of blocks of the groups before g.
RowGroups(row) == 1..(Len(row) \div 3)

RECURSIVE BlocksBefore(_, _)
BlocksBefore(row, g) == IF g <= 1 THEN 0 ELSE BlocksBefore(row, g - 1) + row[3 * (g - 1) - 2]

RECURSIVE RowDataCount(_, _)
RowDataCount(row, g) ==
  IF g = 0 THEN 0 ELSE RowDataCount(row, g - 1) + row[3 * g - 2] * row[3 * g]

\* The sum of the dataCount of a list of blocks, block after block.
RECURSIVE ListDataCount(_, _)
ListDataCount(blocks, k) ==
  IF k = 0 THEN 0 ELSE ListDataCount(blocks, k - 1) + blocks[k].dataCount

\* C13: for a version and level of the table, getRSBlocks returns, group
\* after group in the order of the row, count blocks of the group's
\* (totalCount, dataCount), and their dataCount sums to the sum of
\* count * dataCount over the groups; where the table has no row it throws
\* "bad rs block".
C13_BlocksOfRow ==
  (lib # NoCall /\ lib.fn = "getRSBlocks" /\ lib.done) =>
    LET row == RowOf(lib.typeNumber, lib.errorCorrectLevel)
    IN  IF row = << >> THEN lib.thrown = "bad rs block"
        ELSE /\ lib.thrown = "none"
             /\ Len(lib.value) = BlocksBefore(row, Len(row) \div 3 + 1)
             /\ \A g \in RowGroups(row) :
                  \A j \in 1..row[3 * g - 2] :
                    lib.value[BlocksBefore(row, g) + j]
                      = [totalCount |-> row[3 * g - 1], dataCount |-> row[3 * g]]
             /\ ListDataCount(lib.value, Len(lib.value))
                  = RowDataCount(row, Len(row) \div 3)

\* A row of two groups of different blocks has been expanded.
C13_Witness ==
  /\ lib # NoCall /\ lib.fn = "getRSBlocks" /\ lib.done
  /\ lib.typeNumber = 5 /\ lib.errorCorrectLevel = QRErrorCorrectLevel.Q
  /\ Len(lib.value) = 4
  /\ lib.value[2] # lib.value[3]

\* A call of createData has returned.
CreateDataReturned ==
  lib # NoCall /\ lib.fn = "createData" /\ lib.done /\ lib.thrown = "none"

\* The bit stream of the segments lo..hi in the order of the list: mode on
\* 4 bits, byte count on width bits, the bytes.
RECURSIVE StreamBits(_, _, _, _)
StreamBits(list, width, lo, hi) ==
  IF lo > hi THEN << >>
  ELSE IF lo = hi
       THEN BitsOf(list[lo].mode, 4) \o BitsOf(Len(list[lo].parsedData), width)
            \o ByteBits(list[lo].parsedData, 1, Len(list[lo].parsedData))
  ELSE LET mid == (lo + hi) \div 2
       IN  StreamBits(list, width, lo, mid) \o StreamBits(list, width, mid + 1, hi)

\* The bit k (from 0) of a buffer of total bytes that holds the content,
\* then zeros zero bits, then the bytes 0xEC and 0x11 in turn.
PaddedBit(content, zeros, k) ==
  IF k < Len(content) THEN content[k + 1]
  ELSE IF k < Len(content) + zeros THEN 0
  ELSE BitAt(IF ((k - Len(content) - zeros) \div 8) % 2 = 0 THEN 236 ELSE 17, 7 - (k % 8))

\* The zero bits after the content: the terminator of 4 bits when 4 bits
\* or more are spare, then the bits up to the byte boundary.
ZeroBits(length, total) ==
  LET terminated == IF total * 8 - length >= 4 THEN length + 4 ELSE length
  IN  (terminated - length) + ((8 - (terminated % 8)) % 8)

PaddedAs(buffer, content, total) ==
  /\ buffer.length = total * 8
  /\ Len(buffer.buffer) = total
  /\ \A k \in 1..total : buffer.buffer[k] \in 0..255
  /\ \A k \in 0..(total * 8 - 1) :
       CodewordBit(buffer.buffer, k) = PaddedBit(content, ZeroBits(Len(content), total), k)

\* C14: when createData returns, the padded buffer is exactly
\* totalDataCount * 8 bits: the headers and payloads of the segments, the
\* 4-bit terminator if and only if 4 bits or more were spare, zero bits up
\* to the byte boundary, then 0xEC and 0x11 in turn, 0xEC first, up to the
\* target length.
C14_PaddedBuffer ==
  CreateDataReturned =>
    PaddedAs(lib.buffer,
             StreamBits(lib.dataList, IF lib.typeNumber < 10 THEN 8 ELSE 16,
                        1, Len(lib.dataList)),
             RowDataCount(RowOf(lib.typeNumber, lib.errorCorrectLevel),
                          Len(RowOf(lib.typeNumber, lib.errorCorrectLevel)) \div 3))

\* Two segments of 64 bits in the 16 bytes of version 1 at level M: the
\* terminator and 4 more zero bits make byte 9, seven pad bytes follow.
C14_Witness ==
  /\ CreateDataReturned
  /\ lib.typeNumber = 1 /\ lib.errorCorrectLevel = QRErrorCorrectLevel.M
  /\ Len(lib.dataList) = 2
  /\ lib.buffer.length = 128
  /\ lib.buffer.buffer[8] = 67
  /\ lib.buffer.buffer[9] = 0
  /\ lib.buffer.buffer[10] = 236
  /\ lib.buffer.buffer[16] = 236

\* The cells before cell i (from 0) of array r when arrays of the lengths
\* lens are read cell by cell, array by array, the arrays that have no cell
\* i skipped: cells below i of the arrays 1..q, and one more for an array
\* before r that has a cell i.
RECURSIVE CellsBefore(_, _, _, _)
CellsBefore(lens, r, i, q) ==
  IF q = 0 THEN 0
  ELSE CellsBefore(lens, r, i, q - 1)
         + (IF lens[q] < i THEN lens[q] ELSE i)
         + (IF q < r /\ lens[q] > i THEN 1 ELSE 0)

RECURSIVE ListTotalCount(_, _)
ListTotalCount(blocks, k) ==
  IF k = 0 THEN 0 ELSE ListTotalCount(blocks, k - 1) + blocks[k].totalCount

DataLens(blocks) == [r \in 1..Len(blocks) |-> blocks[r].dataCount]

EcLens(blocks) == [r \in 1..Len(blocks) |-> blocks[r].totalCount - blocks[r].dataCount]

\* The place (from 1) in the codewords of data cell i (from 0) of block r,
\* and of its error correction cell i.
DataPlace(blocks, r, i) == CellsBefore(DataLens(blocks), r, i, Len(blocks)) + 1

EcPlace(blocks, r, i) ==
  ListDataCount(blocks, Len(blocks)) + CellsBefore(EcLens(blocks), r, i, Len(blocks)) + 1

Interleaved(blocks, buffer, dcdata, ecdata, data) ==
  /\ Len(data) = ListTotalCount(blocks, Len(blocks))
  /\ Len(dcdata) = Len(blocks) /\ Len(ecdata) = Len(blocks)
  /\ \A r \in 1..Len(blocks) :
       /\ Len(dcdata[r]) = blocks[r].dataCount
       /\ Len(ecdata[r]) = blocks[r].totalCount - blocks[r].dataCount
       /\ \A i \in 0..(blocks[r].dataCount - 1) :
            /\ dcdata[r][i + 1] = buffer.buffer[ListDataCount(blocks, r - 1) + i + 1]
            /\ DataPlace(blocks, r, i) <= ListDataCount(blocks, Len(blocks))
            /\ data[DataPlace(blocks, r, i)] = dcdata[r][i + 1]
       /\ \A i \in 0..(blocks[r].totalCount - blocks[r].dataCount - 1) :
            /\ EcPlace(blocks, r, i) > ListDataCount(blocks, Len(blocks))
            /\ data[EcPlace(blocks, r, i)] = ecdata[r][i + 1]
  /\ LET places ==
           { DataPlace(blocks, c[1], c[2]) :
               c \in { d \in (1..Len(blocks)) \X (0..(ListDataCount(blocks, Len(blocks)) - 1)) :
                         d[2] < blocks[d[1]].dataCount } }
           \cup
           { EcPlace(blocks, c[1], c[2]) :
               c \in { d \in (1..Len(blocks)) \X (0..(ListTotalCount(blocks, Len(blocks)) - 1)) :
                         d[2] < blocks[d[1]].totalCount - blocks[d[1]].dataCount } }
     IN  places = 1..Len(data)

\* C15: createBytes returns as many codewords as the totalCount of the
\* blocks sum to; the data of block r is the slice of the buffer from the
\* sum of the dataCount of the blocks before it; the codewords are the data
\* cells by index and then by block, a block without the index skipped, then
\* the error correction cells in the same way; every cell has one place of
\* its own, and every data cell comes before every error correction cell.
C15_Interleaving ==
  CreateDataReturned =>
    Interleaved(lib.rsBlocks, lib.buffer, lib.dcdata, lib.ecdata, lib.value)

\* Version 5 at level Q has returned: blocks of 15, 15, 16 and 16 data
\* codewords, the last cell of block 3 at place 61 after 15 rounds of four.
C15_Witness ==
  /\ CreateDataReturned
  /\ lib.typeNumber = 5 /\ lib.errorCorrectLevel = QRErrorCorrectLevel.Q
  /\ Len(lib.dataList) = 1 /\ Len(lib.dataList[1].parsedData) = 30
  /\ Len(lib.value) = 134
  /\ Len(lib.dcdata[1]) = 15 /\ Len(lib.dcdata[3]) = 16
  /\ lib.value[61] = lib.dcdata[3][16]
  /\ lib.value[2] = lib.dcdata[2][1]
  /\ lib.value[63] = lib.ecdata[1][1]

\* The product of a and b in GF(256), the field of the polynomial
\* x^8 + x^4 + x^3 + x^2 + 1 (285): the shifts of a for the bits k..7 of b.
RECURSIVE GfTimes(_, _, _)
GfTimes(a, b, k) ==
  IF k > 7 THEN 0
  ELSE XorNat(IF BitAt(b, k) = 1 THEN a ELSE 0,
              GfTimes(IF a * 2 > 255 THEN XorNat(a * 2, 285) ELSE a * 2, b, k + 1))

GfSquare(a) == GfTimes(a, a, 0)

RECURSIVE GfPower(_, _)
GfPower(a, n) ==
  IF n = 0 THEN 1
  ELSE IF n % 2 = 0 THEN GfSquare(GfPower(a, n \div 2))
  ELSE GfTimes(a, GfPower(a, n - 1), 0)

\* The value at x of the polynomial of the coefficients lo..hi of a
\* codeword list, the highest power first.
RECURSIVE GfValue(_, _, _, _)
GfValue(coefficients, x, lo, hi) ==
  IF lo > hi THEN 0
  ELSE IF lo = hi THEN ToInt(coefficients[lo])
  ELSE LET mid == (lo + hi) \div 2
       IN  XorNat(GfTimes(GfValue(coefficients, x, lo, mid), GfPower(x, hi - mid), 0),
                  GfValue(coefficients, x, mid + 1, hi))

\* The generator of n error correction codewords has the roots 2^0, 2^1,
\* ..., 2^(n-1): a codeword list is a multiple of it exactly when it is 0
\* at each of them.
DivisibleByGenerator(coefficients, n) ==
  \A j \in 0..(n - 1) : GfValue(coefficients, GfPower(2, j), 1, Len(coefficients)) = 0

\* C16: the error correction codewords of each block are totalCount -
\* dataCount values, the coefficients of the remainder of the data times
\* x^ecCount by the generator, zeros before them: the data followed by them
\* is a multiple of the generator.
C16_EcIsRemainder ==
  CreateDataReturned =>
    \A r \in 1..Len(lib.rsBlocks) :
      /\ Len(lib.ecdata[r]) = lib.rsBlocks[r].totalCount - lib.rsBlocks[r].dataCount
      /\ \A i \in 1..Len(lib.ecdata[r]) : lib.ecdata[r][i] \in 0..255
      /\ DivisibleByGenerator(lib.dcdata[r] \o lib.ecdata[r], Len(lib.ecdata[r]))

\* The t-th cell (from 0) on the way of the data through a grid of side n:
\* pairs of columns from the right edge to the left, the column 6 left out,
\* n steps a pair, upward in the first pair and the other way in the next,
\* the right cell of a step before the left one.
ZigzagPair(n, t) == t \div (2 * n)

ZigzagRow(n, t) ==
  IF ZigzagPair(n, t) % 2 = 0 THEN n - 1 - ((t % (2 * n)) \div 2)
  ELSE (t % (2 * n)) \div 2

ZigzagCol(n, t) ==
  (IF ZigzagPair(n, t) < (n - 7) \div 2 THEN n - 1 - 2 * ZigzagPair(n, t)
   ELSE n - 2 - 2 * ZigzagPair(n, t)) - (t % 2)

\* The cells t in lo..hi of the way that are unset in the grid m, in order.
RECURSIVE UnsetCells(_, _, _, _)
UnsetCells(m, n, lo, hi) ==
  IF lo > hi THEN << >>
  ELSE IF lo = hi
       THEN IF Cell(m, ZigzagRow(n, lo), ZigzagCol(n, lo)) = Null
            THEN << << ZigzagRow(n, lo), ZigzagCol(n, lo) >> >>
            ELSE << >>
  ELSE LET mid == (lo + hi) \div 2
       IN  UnsetCells(m, n, lo, mid) \o UnsetCells(m, n, mid + 1, hi)

\* The cells of the list hold the bits of the codewords in order, the
\* highest bit of a codeword first and 0 after the last codeword, each
\* inverted where the mask is set.
HoldsData(m, cells, codewords, maskPattern) ==
  \A k \in 1..Len(cells) :
    Dark(m, cells[k][1], cells[k][2])
      = ((IF k - 1 < 8 * Len(codewords) THEN CodewordBit(codewords, k - 1) = 1 ELSE FALSE)
           # getMask(maskPattern, cells[k][1], cells[k][2]))

\* C17: in a build with the mask m, the k-th cell of the way of the data
\* that the setup left unset holds bit k of the codewords, the highest bit
\* first and 0 once they are used up, XOR getMask(m, row, col).
C17_DataPlacement ==
  BuildDone =>
    /\ Len(UnsetCells(SetupGrid(qr, LastBuild.test, LastBuild.mask),
                      qr.moduleCount, 0, (qr.moduleCount - 1) * qr.moduleCount - 1))
         >= 8 * Len(qr.dataCache)
    /\ HoldsData(qr.modules,
                 UnsetCells(SetupGrid(qr, LastBuild.test, LastBuild.mask),
                            qr.moduleCount, 0, (qr.moduleCount - 1) * qr.moduleCount - 1),
                 qr.dataCache, LastBuild.mask)

\* Version 2 has been built with the mask 3: the first cell of the way, the
\* bottom right one, holds the first bit of the mode, 0, inverted.
C17_Witness ==
  /\ BuildDone
  /\ qr.typeNumber = 2
  /\ LastBuild.mask = 3 /\ ~LastBuild.test
  /\ Len(qr.dataCache) = 44
  /\ Dark(qr.modules, 24, 24)
  /\ getMask(3, 24, 24)

\* The cell of bit i of the format information in its first copy, along
\* column 8, and in its second copy, along row 8.
FormatCell1(n, i) ==
  IF i < 6 THEN << i, 8 >>
  ELSE IF i < 8 THEN << i + 1, 8 >>
  ELSE << n - 15 + i, 8 >>

FormatCell2(n, i) ==
  IF i < 8 THEN << 8, n - i - 1 >>
  ELSE IF i < 9 THEN << 8, 15 - i - 1 + 1 >>
  ELSE << 8, 15 - i - 1 >>

\* The cells of the version information: bit i above the bottom left
\* finder and beside the top right one.
VersionCell1(n, i) == << i \div 3, (i % 3) + n - 8 - 3 >>

VersionCell2(n, i) == << (i % 3) + n - 8 - 3, i \div 3 >>

Light(m, cell) == Cell(m, cell[1], cell[2]) = 0

\* The two copies of the format information in m are the 15 bits.
CarriesFormat(m, n, bits) ==
  \A i \in 0..14 :
    /\ Cell(m, FormatCell1(n, i)[1], FormatCell1(n, i)[2]) = BitAt(bits, i)
    /\ Cell(m, FormatCell2(n, i)[1], FormatCell2(n, i)[2]) = BitAt(bits, i)

\* C18: in a trial build the cells of both copies of the format
\* information, the cells of the version information from version 7 on and
\* the cell (moduleCount - 8, 8) are light; when make() has returned that
\* cell is dark and both copies hold the 15 bits of
\* getBCHTypeInfo((errorCorrectLevel << 3) | m), m the pattern that
\* getBestMaskPattern returned.
C18_FormatCells ==
  /\ (BuildDone /\ LastBuild.test) =>
       /\ \A i \in 0..14 :
            /\ Light(qr.modules, FormatCell1(qr.moduleCount, i))
            /\ Light(qr.modules, FormatCell2(qr.moduleCount, i))
       /\ qr.typeNumber >= 7 =>
            \A i \in 0..17 :
              /\ Light(qr.modules, VersionCell1(qr.moduleCount, i))
              /\ Light(qr.modules, VersionCell2(qr.moduleCount, i))
       /\ Light(qr.modules, << qr.moduleCount - 8, 8 >>)
  /\ (BuildDone /\ MakeReturned) =>
       /\ ~LastBuild.test
       /\ LastBuild.mask = pattern
       /\ Dark(qr.modules, qr.moduleCount - 8, 8)
       /\ CarriesFormat(qr.modules, qr.moduleCount,
                        getBCHTypeInfo(qr.errorCorrectLevel * 8 + pattern))

\* make() has returned with a pattern that is not 0: the last build is the
\* final one, with the cell (moduleCount - 8, 8) dark.
C18_Witness ==
  /\ BuildDone /\ MakeReturned
  /\ pattern # 0
  /\ ~LastBuild.test
  /\ Dark(qr.modules, qr.moduleCount - 8, 8)

\* The cells a finder pattern at (row, col) assigns: (row + r, col + c) for
\* r and c in -1..7, inside the grid.
ProbeTargets(n, row, col) ==
  { cell \in ((row - 1)..(row + 7)) \X ((col - 1)..(col + 7)) :
      cell[1] \in 0..(n - 1) /\ cell[2] \in 0..(n - 1) }

\* The cells an alignment pattern at (row, col) assigns.
AdjustTargets(row, col) == ((row - 2)..(row + 2)) \X ((col - 2)..(col + 2))

\* The cells setupTypeInfo assigns, and those setupTypeNumber assigns.
FormatTargets(n) ==
  { FormatCell1(n, i) : i \in 0..14 } \cup { FormatCell2(n, i) : i \in 0..14 }
    \cup { << n - 8, 8 >> }

VersionTargets(n) ==
  { VersionCell1(n, i) : i \in 0..17 } \cup { VersionCell2(n, i) : i \in 0..17 }

\* Every cell of the set is unset in the grid g.
AllUnset(g, cells) == \A cell \in cells : g[cell[1]][cell[2]] = Null

\* The alignment patterns k of the loops over i and j that find their
\* centre unset assign cells that were all unset before them.
AdjustOnUnset(g3, n, pos) ==
  \A k \in 0..(Len(pos) * Len(pos) - 1) :
    LET row == pos[(k \div Len(pos)) + 1]
        col == pos[(k % Len(pos)) + 1]
    IN  AdjustLoop(g3, n, pos, 0, k - 1)[row][col] = Null
          => AllUnset(AdjustLoop(g3, n, pos, 0, k - 1), AdjustTargets(row, col))

\* The cells of the timing pattern that were set before it keep their value.
TimingSkipsSet(g4, g5, n) ==
  \A k \in 8..(n - 9) :
    /\ g4[k][6] # Null => g5[k][6] = g4[k][6]
    /\ g4[6][k] # Null => g5[6][k] = g4[6][k]

\* The cells that were set before the data keep their value.
DataKeepsSet(before, after, n) ==
  \A row \in 0..(n - 1), col \in 0..(n - 1) :
    Cell(before, row, col) # Null => Cell(after, row, col) = Cell(before, row, col)

OneWriteACell(q, test, maskPattern) ==
  LET n == q.typeNumber * 4 + 17
  IN  /\ AllUnset(SetupStage(q, test, maskPattern, 0), ProbeTargets(n, 0, 0))
      /\ AllUnset(SetupStage(q, test, maskPattern, 1), ProbeTargets(n, n - 7, 0))
      /\ AllUnset(SetupStage(q, test, maskPattern, 2), ProbeTargets(n, 0, n - 7))
      /\ AdjustOnUnset(SetupStage(q, test, maskPattern, 3), n,
                       getPatternPosition(q.typeNumber))
      /\ TimingSkipsSet(SetupStage(q, test, maskPattern, 4),
                        SetupStage(q, test, maskPattern, 5), n)
      /\ AllUnset(SetupStage(q, test, maskPattern, 5), FormatTargets(n))
      /\ Cardinality(FormatTargets(n)) = 31
      /\ q.typeNumber >= 7 =>
           /\ AllUnset(SetupStage(q, test, maskPattern, 6), VersionTargets(n))
           /\ Cardinality(VersionTargets(n)) = 36
      /\ DataKeepsSet(SetupGrid(q, test, maskPattern), q.modules, n)

\* C19: within one build, of any version, a cell is assigned at most once:
\* a finder pattern, an alignment pattern that is drawn, the format
\* information and the version information assign only cells that were
\* unset, each once; the timing pattern and the data leave the cells that
\* were set as they are.
C19_OneWriteACell ==
  BuildDone => OneWriteACell(qr, LastBuild.test, LastBuild.mask)

\* Version 7 has been built: of its nine alignment centres three lie in a
\* finder pattern and are skipped, and the pattern at (6, 22) is drawn on
\* the row of the timing pattern.
C19_Witness ==
  /\ BuildDone
  /\ qr.typeNumber = 7
  /\ getPatternPosition(7) = << 6, 22, 38 >>
  /\ Dark(qr.modules, 6, 22) /\ Dark(qr.modules, 4, 20) /\ ~Dark(qr.modules, 5, 21)
  /\ Dark(qr.modules, 6, 38) /\ Dark(qr.modules, 4, 38) /\ Dark(qr.modules, 5, 38)

\* C20: after any build, of any version, the cells (6, k) and (k, 6) for k
\* in 8..moduleCount-9 are dark exactly when k is even, those that an
\* alignment pattern on row 6 or column 6 has assigned included.
C20_TimingParity ==
  BuildDone =>
    \A k \in 8..(qr.moduleCount - 9) :
      /\ Dark(qr.modules, 6, k) = (k % 2 = 0)
      /\ Dark(qr.modules, k, 6) = (k % 2 = 0)
      /\ Cell(qr.modules, 6, k) # Null
      /\ Cell(qr.modules, k, 6) # Null

\* Version 7 has been built: the alignment pattern at (6, 22) had assigned
\* the cells (6, 20) to (6, 24) before the timing pattern, which skipped
\* them, and the cell (6, 25) is of the timing pattern.
C20_Witness ==
  /\ BuildDone
  /\ qr.typeNumber = 7
  /\ SetupStage(qr, LastBuild.test, LastBuild.mask, 4)[6][22] = 1
  /\ SetupStage(qr, LastBuild.test, LastBuild.mask, 4)[6][21] = 0
  /\ SetupStage(qr, LastBuild.test, LastBuild.mask, 4)[6][25] = Null
  /\ Dark(qr.modules, 6, 22) /\ ~Dark(qr.modules, 6, 21) /\ ~Dark(qr.modules, 6, 25)
  /\ Dark(qr.modules, 22, 6)

\* A call of the function fn has returned.
Returned(fn) == lib # NoCall /\ lib.fn = fn /\ lib.done /\ lib.thrown = "none"

\* The product of a and b as polynomials over GF(2): the shifts of a for
\* the bits of b, added without carry.
RECURSIVE Gf2Times(_, _)
Gf2Times(a, b) ==
  IF b = 0 THEN 0
  ELSE XorNat(IF b % 2 = 1 THEN a ELSE 0, 2 * Gf2Times(a, b \div 2))

\* The value is a multiple of g over GF(2) by a quotient of at most width bits.
Gf2Multiple(value, g, width) == \E q \in 0..(Pow2(width) - 1) : Gf2Times(g, q) = value

\* C21: for a 5-bit value d, getBCHTypeInfo(d) is a 15-bit value that,
\* XORed with 0x5412, has d as its top 5 bits and is a multiple of G15 over
\* GF(2), and getBCHTypeInfo(0) is 0x5412; for a version v from 7 on,
\* getBCHTypeNumber(v) is an 18-bit value with v as its top 6 bits that is a
\* multiple of G18 over GF(2).
C21_BCHCodes ==
  /\ Returned("getBCHTypeInfo") =>
       /\ lib.value \in 0..(Pow2(15) - 1)
       /\ XorNat(lib.value, 21522) \div Pow2(10) = lib.data
       /\ Gf2Multiple(XorNat(lib.value, 21522), 1335, 5)
       /\ lib.data = 0 => lib.value = 21522
  /\ (Returned("getBCHTypeNumber") /\ lib.data >= 7) =>
       /\ lib.value \in 0..(Pow2(18) - 1)
       /\ lib.value \div Pow2(12) = lib.data
       /\ Gf2Multiple(lib.value, 7973, 6)

\* getBCHTypeNumber(7) has returned 0x07C94, the version information of
\* version 7.
C21_Witness ==
  /\ Returned("getBCHTypeNumber")
  /\ lib.data = 7
  /\ lib.value = 31892

\* The bytes a code unit is encoded to, by its range.
UnitBytes(code) == IF code > 2048 THEN 3 ELSE IF code > 128 THEN 2 ELSE 1

RECURSIVE TextBytes(_, _)
TextBytes(text, k) == IF k = 0 THEN 0 ELSE TextBytes(text, k - 1) + UnitBytes(text[k])

\* C22: the segment begins with the bytes 0xEF, 0xBB, 0xBF exactly when the
\* bytes its code units are encoded to are not as many as the code units;
\* getLength() counts these 3 bytes; when every code unit is encoded to one
\* byte the parsed bytes are the code units, with nothing before them.
C22_ByteOrderMark ==
  Returned("QR8bitByte") =>
    /\ lib.length = Len(lib.value.parsedData)
    /\ IF TextBytes(lib.data, Len(lib.data)) # Len(lib.data)
       THEN /\ lib.length = TextBytes(lib.data, Len(lib.data)) + 3
            /\ SubSeq(lib.value.parsedData, 1, 3) = << 239, 187, 191 >>
       ELSE /\ lib.length = Len(lib.data)
            /\ lib.value.parsedData = lib.data

\* The segment of "Aé" has been made: 3 added bytes, "A", and 2 bytes.
C22_Witness ==
  /\ Returned("QR8bitByte")
  /\ lib.data = << 65, 233 >>
  /\ lib.value.parsedData = << 239, 187, 191, 65, 195, 169 >>
  /\ lib.length = 6

\* The coefficient of x^(Len(a) + Len(e) - 1 - k) in the product of a and e
\* over GF(256): the terms a[i] * e[k + 1 - i], added by XOR from i on.
RECURSIVE ConvolutionAt(_, _, _, _)
ConvolutionAt(a, e, k, i) ==
  IF i > Len(a) THEN 0
  ELSE XorNat(IF k + 1 - i \in 1..Len(e) THEN GfTimes(a[i], e[k + 1 - i], 0) ELSE 0,
              ConvolutionAt(a, e, k, i + 1))

Convolution(a, e) == [k \in 1..(Len(a) + Len(e) - 1) |-> ConvolutionAt(a, e, k, 1)]

HasZero(a) == \E i \in 1..Len(a) : a[i] = 0

\* C23: multiply, called on two polynomials of which one has a coefficient
\* that is 0, does not fail, and returns their product over GF(256), of
\* Len(a) + Len(e) - 1 coefficients, to which the zero terms add nothing.
C23_ZeroCoefficient ==
  (/\ lib # NoCall
   /\ lib.fn = "multiply"
   /\ lib.done
   /\ HasZero(lib.a) \/ HasZero(lib.e))
  => /\ lib.thrown = "none"
     /\ lib.value = Convolution(lib.a, lib.e)

\* C24: gexp(n) is EXP_TABLE[n mod 255] for every integer n, below 0 and from
\* 255 on as well, which is the power n mod 255 of the generator 2, so that
\* gexp(255) = gexp(0) = 1; glog(n) fails for n < 1, and for x in 1..255
\* gexp(glog(x)) = x.
C24_ExpAndLog ==
  /\ Returned("gexp") =>
       /\ lib.value = EXP_TABLE[lib.data % 255]
       /\ lib.value = GfPower(2, lib.data % 255)
       /\ lib.data \in {0, 255} => lib.value = 1
  /\ (lib # NoCall /\ lib.fn = "glog" /\ lib.done) =>
       IF lib.data < 1
       THEN lib.thrown = "glog"
       ELSE /\ lib.thrown = "none"
            /\ lib.value \in 0..254
            /\ gexp(lib.value) = lib.data

\* gexp has returned 1 for 255.
C24_Witness ==
  /\ Returned("gexp")
  /\ lib.data = 255
  /\ lib.value = 1

\* A call of mod on a dividend not shorter than e goes on with a strictly
\* shorter one; a call on a shorter dividend returns it as it is.
ModPassShortens ==
  (lib # NoCall /\ lib.fn = "mod" /\ ~lib.done) =>
    IF Len(lib.p) < Len(lib.e)
    THEN lib'.done /\ lib'.value = lib.p
    ELSE ~lib'.done /\ Len(lib'.p) < Len(lib.p)

\* C25: mod(e), for a divisor e whose coefficients are all non-zero, ends:
\* a dividend shorter than e is returned unchanged, every other call goes on
\* with a strictly shorter dividend (so a dividend of n coefficients is
\* returned within n - Len(e) + 2 calls), and the polynomial returned has
\* fewer coefficients than e.
C25_ModTerminates ==
  /\ [](Returned("mod") =>
          /\ Len(lib.value) < Len(lib.e)
          /\ Len(lib.start) < Len(lib.e) => lib.value = lib.start)
  /\ []((lib # NoCall /\ lib.fn = "mod") => Len(lib.p) <= Len(lib.start))
  /\ [][ModPassShortens]_vars

\* mod has returned after division steps: <<32, 91, 11>> followed by two
\* unset coefficients, divided by <<1, 3, 2>>, left fewer than 3 coefficients.
C25_Witness ==
  /\ Returned("mod")
  /\ lib.start = QRPolynomial(<< 32, 91, 11 >>, 2)
  /\ lib.e = << 1, 3, 2 >>
  /\ lib.value # lib.start
  /\ Len(lib.value) \in 1..2

\* A call on the buffer does not lower its bit length, and put(num, n)
\* raises it by n.
BufferGrows ==
  (lib # NoCall /\ lib.fn = "QRBitBuffer") =>
    /\ lib'.b.length >= lib.b.length
    /\ (lib' # lib /\ lib'.last.call = "put") =>
         lib'.b.length = lib.b.length + lib'.last.n
    /\ (lib' # lib /\ lib'.last.call = "putBit") =>
         lib'.b.length = lib.b.length + 1

\* C26: after any calls of put and putBit on a QRBitBuffer its bit length is
\* the number of bits appended and never goes down (put(value, n) raises it
\* by exactly n), the backing array has ceil(length / 8) entries, and
\* length <= 8 * buffer.length.
C26_BufferLength ==
  /\ []((lib # NoCall /\ lib.fn = "QRBitBuffer") =>
          /\ lib.b.length = lib.count
          /\ Len(lib.b.buffer) = (lib.b.length + 7) \div 8
          /\ lib.b.length <= 8 * Len(lib.b.buffer)
          /\ \A k \in 1..Len(lib.b.buffer) : lib.b.buffer[k] \in 0..255)
  /\ [][BufferGrows]_vars

\* put has appended 8 bits to a buffer of 3, which made a second byte.
C26_Witness ==
  /\ lib # NoCall
  /\ lib.fn = "QRBitBuffer"
  /\ lib.last = [call |-> "put", n |-> 8]
  /\ lib.b.length = 11
  /\ Len(lib.b.buffer) = 2

\* C27: when the selector has returned a version for the text of makeCode,
\* the length it went by is not below the number of bytes of the segment
\* (the 3 added ones included), and the build of that version does not throw
\* "code length overflow"; texts with non-ASCII characters and surrogate
\* pairs included.
C27_EstimateCoversSegment ==
  (op = "makeCode" /\ sel.done /\ sel.thrown = "none") =>
    /\ _getUTF8Length(sel.sText) >= getLength(QR8bitByte(sel.sText))
    /\ err # "code length overflow"

\* A step leaves the codewords in place; only addData takes them away, and
\* only a build that found none puts new ones.
CacheKept ==
  /\ (qr.dataCache # NullCache /\ qr'.dataCache # qr.dataCache) =>
       (op' = "addData" /\ qr'.dataCache = NullCache)
  /\ (qr.dataCache = NullCache /\ qr'.dataCache # NullCache) =>
       (pc = "trial" /\ iTrial = 0)

\* C28: after any addData and make calls, codewords that are kept are
\* createData(typeNumber, errorCorrectLevel, dataList) of the segments now in
\* the list; within a make() only the first trial build can find none and
\* compute them, every later build has them, and a make() that returned
\* leaves them to the next make(), which keeps them when no addData came
\* between.
C28_CacheIsCurrent ==
  /\ [](qr.dataCache # NullCache =>
          qr.dataCache = createData(qr.typeNumber, qr.errorCorrectLevel, qr.dataList))
  /\ []((pc = "final" \/ (pc = "trial" /\ iTrial > 0)) => qr.dataCache # NullCache)
  /\ [](MakeReturned => qr.dataCache # NullCache)
  /\ [][CacheKept]_vars

\* A make() that follows a make() that returned, no addData between, is at
\* its second trial build with the codewords the first make() computed.
C28_Witness ==
  /\ op = "make"
  /\ pc = "trial"
  /\ iTrial = 1
  /\ pre.dataCache # NullCache
  /\ qr.dataCache = pre.dataCache
  /\ Len(qr.dataList) = 2

\* Every cell of the matrix m is light or dark.
NoneUnset(m) ==
  \A r \in 1..Len(m) : \A c \in 1..Len(m[r]) : m[r][c] \in { Bool(TRUE), Bool(FALSE) }

\* C29: after every build that returned, a trial build or the final one, of
\* any version, no cell of the moduleCount x moduleCount matrix is unset:
\* each is light or dark.
C29_NoCellUnset ==
  (BuildDone /\ err = "none")
    => /\ Len(qr.modules) = qr.moduleCount
       /\ \A r \in 1..Len(qr.modules) : Len(qr.modules[r]) = qr.moduleCount
       /\ NoneUnset(qr.modules)

\* The final build of a make() has returned, after its 8 trial builds and
\* their 8 penalty evaluations, and left no cell unset.
C29_Witness ==
  /\ MakeReturned
  /\ Len(builds) = 17
  /\ ~LastBuild.test
  /\ NoneUnset(qr.modules)

\* The cells of the rows lo..hi of the grid g that are unset.
RECURSIVE UnsetCount(_, _, _)
UnsetCount(g, lo, hi) ==
  IF lo > hi THEN 0
  ELSE IF lo = hi THEN Cardinality({ c \in 1..Len(g[lo]) : g[lo][c] = Null })
  ELSE LET mid == (lo + hi) \div 2
       IN  UnsetCount(g, lo, mid) + UnsetCount(g, mid + 1, hi)

\* The cells the setup routines of makeImpl leave unset on a model of the
\* version and level.
DataCells(typeNumber, errorCorrectLevel) ==
  UnsetCount(SetupGrid(QRCodeModel(typeNumber, errorCorrectLevel), FALSE, 0),
             1, typeNumber * 4 + 17)

\* C30: for every version 1..40 and every level, the cells the function
\* patterns leave unset are at least 8 times the sum of totalCount of the
\* blocks of getRSBlocks, and fewer than 8 more: every bit of every codeword
\* has a cell, and at most 7 cells are left for the zero bit.
C30_CellsForCodewords ==
  Returned("getRSBlocks") =>
    LET cells == DataCells(lib.typeNumber, lib.errorCorrectLevel)
        bits  == 8 * ListTotalCount(lib.value, Len(lib.value))
    IN  bits <= cells /\ cells < bits + 8
====
